---- MODULE Spec2Model ----
(***************************************************************************)
(* Model of the synthy voice engine: Synthy::process (src/src/lib.rs), the *)
(* note / envelope-stage state machine it drives, and the editor handlers  *)
(* of AppData::event (src/src/ui.rs) that write the shared envelopes.      *)
(* Beside it: the Mseg graph widget (src/src/widgets/mseg), the egui       *)
(* Envelope widget (src/src/widgets/envelope.rs) and the two definitions   *)
(* of xlerp (src/src/util.rs, src/src/util/math.rs), each under a          *)
(* specification of its own.                                               *)
(*                                                                         *)
(* Time is counted in ticks of 0.25 s, point values in tenths.  Envelope    *)
(* outputs are exact rationals (reduced fractions of tenths); f32 rounding *)
(* is not modelled.  One block lasts BlockTicks ticks: the host's sample   *)
(* rate is an input of the plugin, and the model takes a block of 0.5 s.   *)
(***************************************************************************)
EXTENDS Integers, Sequences, FiniteSets, TLC

VARIABLES time, note, enabled, freq, envTags, envs, queue, midi, pc,
          guards, writer, out, edits,
          active_point_id, is_dragging_point, event_queue, inputs, ui_panicked,
          current_node_id, pointer,
          xl,
          channels, status, written,
          call,
          zoom_view, zoomer_status,
          state, captured, hovered, changing

\* what a block leaves in the host's buffer, and the status process returns
\* when the block is its last
renderVars == <<out, status, written>>
audioVars == <<time, note, enabled, freq, envTags, midi, pc, renderVars>>
\* the state of the MsegGraph view and of the event queue of the UI thread
graphVars == <<active_point_id, is_dragging_point, event_queue, inputs, ui_panicked>>
\* what the voice engine and the handlers of AppData::event never touch
\* the egui memory slot CURRENT_ACTIVE_ID_MEMORY_ID, shared by the Envelope
\* widgets, and the widget and button of the pointer press under way
envelopeVars == <<current_node_id, pointer>>
\* AppData::env_zoom_view, in tenths, and Zoomer::status
zoomVars == <<zoom_view, zoomer_status>>
\* XyPad::state, the mouse capture, whether the cursor is within HOVER_RADIUS
\* of the data point, and the number of calls of on_changing_point
padVars == <<state, captured, hovered, changing>>
restVars == <<graphVars, envelopeVars, xl, channels, call, zoomVars, padVars>>
vars == <<time, note, enabled, freq, envTags, envs, queue, midi, pc,
          guards, writer, out, edits,
          active_point_id, is_dragging_point, event_queue, inputs, ui_panicked,
          current_node_id, pointer,
          xl,
          channels, status, written,
          call,
          zoom_view, zoomer_status,
          state, captured, hovered, changing>>

----------------------------------------------------------------------------
(* Bounds of the model *)

\* the transport clock stops being advanced at this many ticks
MaxClock == 15
\* number of MIDI events the host may have queued
MaxQueue == 2
\* number of edit events the editor issues
MaxEdits == 1
\* number of mouse events the user sends to an envelope widget
MaxInputs == 4
\* the largest number of channels a host hands to process
MaxChannels == 3
\* the longest CurvePoints sequence that is serialized
MaxPoints == 2
\* number of RemovePoint events the editor sends for the master envelope
MaxRemovals == 2

----------------------------------------------------------------------------
(* Program constants *)

\* MAX_BUFFER_SIZE / sample_rate: the duration of one block, in ticks
BlockTicks == 2
\* the `max` handed to Mseg::new, in ticks
MaxTime == 14
\* MIN_RESOLUTION of the envelope graph, in ticks
MinResolution == 1
\* the widgets are drawn at this many pixels per tick and per tenth
PixelsPerUnit == 16
\* HOVER_RADIUS of the envelope graph, in pixels
HoverRadius == 16
\* HINT_SIZE of the Envelope widget, in pixels
HintSize == 8
\* BUMP_AMOUNT of the Envelope widget, rounded up to the grid of the model
BumpAmount == 1
\* the number of values of the usize that holds a stage (type Stage = usize),
\* modelled 16 bits wide: arithmetic on a stage wraps at this modulus when the
\* build does not check for overflow
UsizeModulus == 65536
\* SMALLEST_RANGE, 0.1, and the end of the range 0..=1, in tenths
SmallestRange == 1
FullRange == 10
\* DEFAULT_NUM_OUTPUTS
DefaultNumOutputs == 2

Pitches == {60, 69}
Velocities == {64, 100}
EditValues == {0, 10}

EnvNames == {"a_env", "b_env", "noise_env", "env"}

None == <<>>
Some(x) == <<x>>
IsSome(o) == o # <<>>
Unwrap(o) == o[1]

\* SynthyParams::default: (0, 0), (0.5, 1.0), (1.0, 0.7), (2.0, 0.5), (3.0, 0.0)
DefaultEnv ==
  << [x |-> 0, y |-> 0], [x |-> 2, y |-> 10], [x |-> 4, y |-> 7],
     [x |-> 8, y |-> 5], [x |-> 12, y |-> 0] >>

\* a persisted envelope whose points lie closer together than one block
TightEnv ==
  << [x |-> 0, y |-> 0], [x |-> 1, y |-> 10], [x |-> 2, y |-> 5],
     [x |-> 4, y |-> 0] >>

\* the envelopes a restored plugin state may hold
InitEnvs == {DefaultEnv, TightEnv}

\* persisted envelopes that break the structure: no point, one point, two
\* points at the same time, times that go back
EmptyEnv == <<>>
OnePointEnv == << [x |-> 0, y |-> 0] >>
StepEnv ==
  << [x |-> 0, y |-> 0], [x |-> 2, y |-> 10], [x |-> 2, y |-> 5],
     [x |-> 6, y |-> 0] >>
BackEnv ==
  << [x |-> 0, y |-> 0], [x |-> 4, y |-> 10], [x |-> 2, y |-> 5],
     [x |-> 6, y |-> 0] >>
MalformedEnvs == {EmptyEnv, OnePointEnv, StepEnv, BackEnv}

MidiEvents ==
  [type : {"NoteOn", "NoteOff"}, note : Pitches, velocity : Velocities]

\* nih_plug::util::midi_note_to_freq, in centihertz, for the pitches used
MidiNoteToFreq(n) ==
  CASE n = 69 -> 44000
    [] n = 60 -> 26163
    [] OTHER  -> 0

----------------------------------------------------------------------------
(* Pure helpers *)

Abs(a) == IF a >= 0 THEN a ELSE -a

RECURSIVE Gcd(_, _)
Gcd(a, b) == IF b = 0 THEN a ELSE Gcd(b, a % b)

\* the f64 value n / d handed to AudioUnit64::set, as a reduced fraction (d > 0)
Finite(n, d) ==
  LET g == Gcd(Abs(n), d) IN [fin |-> TRUE, n |-> n \div g, d |-> d \div g]

\* an infinite or NaN value
NonFinite == [fin |-> FALSE, n |-> 0, d |-> 1]

\* no call of a pure function is under way
NoCall == <<>>

\* Vec::get with a 0-based index
Get(s, i) == IF i >= 0 /\ i < Len(s) THEN Some(s[i + 1]) ELSE None

\* fundsp lerp(a, b, t) = a * (1 - t) + b * t, with t = num / den
Lerp(a, b, num, den) == Finite(a * (den - num) + b * num, den)

\* the value set_env computes from the two points of the segment: the
\* normalized position is a division by right.0 - left.0
EnvValue(left, right, rel) ==
  IF right.x = left.x
    THEN NonFinite
    ELSE IF right.x > left.x
      THEN Lerp(left.y, right.y, rel - left.x, right.x - left.x)
      ELSE Lerp(left.y, right.y, left.x - rel, left.x - right.x)

\* usize arithmetic without overflow checks
Wrap(i) == i % UsizeModulus

\* the stage-advance step of the block, on a note n, the master points and the
\* clock.  stage + 1 overflows only from the stage a wrapped len - 2 left,
\* which a build with overflow checks never stores
TickNote(n, envelope, t) ==
  LET rel == t - n.on
      nxt == Get(envelope, Wrap(n.stage + 1))
      adv == IF IsSome(nxt) /\ rel >= Unwrap(nxt).x
               THEN [n EXCEPT !.stage = Wrap(n.stage + 1)]
               ELSE n
  IN IF adv.stage = Len(envelope) THEN None ELSE Some(adv)

\* a NoteOn that leaves the activation time at the start of the transport
NoteOnNoteAtZero(ev, t) ==
  [note |-> ev.note, velocity |-> ev.velocity, on |-> 0, stage |-> 0]

\* a NoteOn that stamps the note with the time the block ends at
NoteOnNoteAhead(ev, t) ==
  [note |-> ev.note, velocity |-> ev.velocity, on |-> t + BlockTicks, stage |-> 0]

\* NoteOn arm of the event match
NoteOnNote(ev, t) ==
  [note |-> ev.note, velocity |-> ev.velocity, on |-> t, stage |-> 0]

\* a NoteOff arm without the comparison of the pitches
NoteOffNoteAnyPitch(n, ev, envelope) ==
  [n EXCEPT !.velocity = ev.velocity, !.stage = Wrap(Len(envelope) - 2)]

\* NoteOff arm of the event match, on a sounding note n
NoteOffNote(n, ev, envelope) ==
  IF n.note = ev.note
    THEN [n EXCEPT !.velocity = ev.velocity, !.stage = Wrap(Len(envelope) - 2)]
    ELSE n

----------------------------------------------------------------------------
(* Initial state: Synthy::default and SynthyParams::default *)

InitEngine(initial) ==
  /\ time = 0
  /\ note = None
  /\ enabled = FALSE
  /\ freq = 0
  /\ envTags = [e \in EnvNames |-> Finite(0, 1)]
  /\ envs \in initial
  /\ queue = <<>>
  /\ midi = None
  /\ pc = "midi"
  /\ guards = [e \in EnvNames |-> 0]
  /\ writer = None
  /\ out = "zero"
  /\ status = None
  /\ written = <<>>
  /\ edits = 0
  /\ active_point_id = None
  /\ is_dragging_point = FALSE
  /\ event_queue = <<>>
  /\ inputs = 0
  /\ ui_panicked = FALSE
  /\ current_node_id = None
  /\ pointer = None
  /\ zoom_view = [start |-> 0, end |-> FullRange]
  /\ zoomer_status = "FinishSet"
  /\ state = "NoOp"
  /\ captured = FALSE
  /\ hovered = FALSE
  /\ changing = 0

InitWith(initial) ==
  /\ InitEngine(initial)
  /\ xl = NoCall
  /\ call = NoCall
  /\ channels = DefaultNumOutputs

----------------------------------------------------------------------------
(* The host queues a MIDI event for the next blocks *)

HostSendMidi(events) ==
  /\ pc = "midi"
  /\ Len(queue) < MaxQueue
  /\ \E ev \in events : queue' = Append(queue, ev)
  /\ UNCHANGED <<audioVars, envs, guards, writer, edits, restVars>>

----------------------------------------------------------------------------
(* The audio thread: one block of Synthy::process *)

\* a NoteOn arm that leaves the Freq tag as it was
ProcessMidiKeepsFreq ==
  /\ pc = "midi"
  /\ time < MaxClock
  /\ IF queue = <<>>
       THEN /\ midi' = None
            /\ pc' = "tick"
            /\ UNCHANGED <<queue, enabled, freq, note>>
       ELSE LET ev == Head(queue) IN
            /\ queue' = Tail(queue)
            /\ midi' = Some(ev)
            /\ IF ev.type = "NoteOn"
                 THEN /\ enabled' = TRUE
                      /\ note' = Some(NoteOnNote(ev, time))
                      /\ pc' = "tick"
                      /\ UNCHANGED freq
                 ELSE /\ pc' = IF IsSome(note) THEN "noteoff" ELSE "tick"
                      /\ UNCHANGED <<enabled, freq, note>>
  /\ UNCHANGED <<time, envTags, envs, guards, writer, renderVars, edits, restVars>>

\* a block that applies the head of the queue and drops the events behind it
ProcessMidiDrains ==
  /\ pc = "midi"
  /\ time < MaxClock
  /\ IF queue = <<>>
       THEN /\ midi' = None
            /\ pc' = "tick"
            /\ UNCHANGED <<queue, enabled, freq, note>>
       ELSE LET ev == Head(queue) IN
            /\ queue' = <<>>
            /\ midi' = Some(ev)
            /\ IF ev.type = "NoteOn"
                 THEN /\ enabled' = TRUE
                      /\ freq' = MidiNoteToFreq(ev.note)
                      /\ note' = Some(NoteOnNote(ev, time))
                      /\ pc' = "tick"
                 ELSE /\ pc' = IF IsSome(note) THEN "noteoff" ELSE "tick"
                      /\ UNCHANGED <<enabled, freq, note>>
  /\ UNCHANGED <<time, envTags, envs, guards, writer, renderVars, edits, restVars>>

\* context.next_midi_event() and the event match, up to the first env.read()
ProcessMidi ==
  /\ pc = "midi"
  /\ time < MaxClock
  /\ IF queue = <<>>
       THEN /\ midi' = None
            /\ pc' = "tick"
            /\ UNCHANGED <<queue, enabled, freq, note>>
       ELSE LET ev == Head(queue) IN
            /\ queue' = Tail(queue)
            /\ midi' = Some(ev)
            /\ IF ev.type = "NoteOn"
                 THEN /\ enabled' = TRUE
                      /\ freq' = MidiNoteToFreq(ev.note)
                      /\ note' = Some(NoteOnNote(ev, time))
                      /\ pc' = "tick"
                 ELSE /\ pc' = IF IsSome(note) THEN "noteoff" ELSE "tick"
                      /\ UNCHANGED <<enabled, freq, note>>
  /\ UNCHANGED <<time, envTags, envs, guards, writer, renderVars, edits, restVars>>

\* let params = self.params.env.read().unwrap(): waits while a writer holds the lock
NoteOffRead ==
  /\ pc = "noteoff"
  /\ ~(IsSome(writer) /\ Unwrap(writer).param = "env")
  /\ guards' = [guards EXCEPT !["env"] = @ + 1]
  /\ pc' = "noteoff_body"
  /\ UNCHANGED <<time, note, enabled, freq, envTags, envs, queue, midi, renderVars, writer, edits, restVars>>

\* a NoteOff arm that moves the release point of the master envelope to the
\* relative time of the note
NoteOffBodyMovesRelease ==
  /\ pc = "noteoff_body"
  /\ LET ev == Unwrap(midi)
         n  == Unwrap(note) IN
     \/ /\ n.note = ev.note /\ Len(envs["env"]) < 2
        /\ pc' = "panicked"
        /\ guards' = [guards EXCEPT !["env"] = 0]
        /\ UNCHANGED <<note, envs>>
     \/ /\ note' = Some(NoteOffNote(n, ev, envs["env"]))
        /\ guards' = [guards EXCEPT !["env"] = IF n.note = ev.note THEN @ + 1 ELSE @]
        /\ envs' = IF n.note = ev.note /\ Len(envs["env"]) >= 2
                     THEN [envs EXCEPT !["env"][Len(envs["env"]) - 1].x = time - n.on]
                     ELSE envs
        /\ pc' = "noteoff_exit"
  /\ UNCHANGED <<time, enabled, freq, envTags, queue, midi, renderVars, writer, edits, restVars>>

\* a NoteOff arm whose second read waits until no guard is held on the lock
NoteOffBodyWaitsForReaders ==
  /\ pc = "noteoff_body"
  /\ LET ev == Unwrap(midi)
         n  == Unwrap(note) IN
     \/ /\ n.note = ev.note /\ Len(envs["env"]) < 2
        /\ pc' = "panicked"
        /\ guards' = [guards EXCEPT !["env"] = 0]
        /\ UNCHANGED note
     \/ /\ n.note = ev.note => guards["env"] = 0
        /\ note' = Some(NoteOffNote(n, ev, envs["env"]))
        /\ guards' = [guards EXCEPT !["env"] = IF n.note = ev.note THEN @ + 1 ELSE @]
        /\ pc' = "noteoff_exit"
  /\ UNCHANGED <<time, enabled, freq, envTags, envs, queue, midi, renderVars, writer, edits, restVars>>

\* the body of the NoteOff arm, under the first guard; a matching pitch takes
\* the second read guard.  params.len() - 2 on fewer than two points
\* underflows: the build with overflow checks panics there (the unwinding
\* drops the read guard), the build without them stores the wrapped stage
NoteOffBody ==
  /\ pc = "noteoff_body"
  /\ LET ev == Unwrap(midi)
         n  == Unwrap(note) IN
     \/ /\ n.note = ev.note /\ Len(envs["env"]) < 2
        /\ pc' = "panicked"
        /\ guards' = [guards EXCEPT !["env"] = 0]
        /\ UNCHANGED note
     \/ /\ note' = Some(NoteOffNote(n, ev, envs["env"]))
        /\ guards' = [guards EXCEPT !["env"] = IF n.note = ev.note THEN @ + 1 ELSE @]
        /\ pc' = "noteoff_exit"
  /\ UNCHANGED <<time, enabled, freq, envTags, envs, queue, midi, renderVars, writer, edits, restVars>>

\* the guards of the NoteOff arm go out of scope
NoteOffExit ==
  /\ pc = "noteoff_exit"
  /\ guards' = [guards EXCEPT !["env"] = 0]
  /\ pc' = "tick"
  /\ UNCHANGED <<time, note, enabled, freq, envTags, envs, queue, midi, renderVars, writer, edits, restVars>>

\* if let Ok(envelope) = self.params.env.read()
TickRead ==
  /\ pc = "tick"
  /\ ~(IsSome(writer) /\ Unwrap(writer).param = "env")
  /\ guards' = [guards EXCEPT !["env"] = @ + 1]
  /\ pc' = "tick_body"
  /\ UNCHANGED <<time, note, enabled, freq, envTags, envs, queue, midi, renderVars, writer, edits, restVars>>

\* "Calculate main env notes on and off", then the guard is dropped
TickBody ==
  /\ pc = "tick_body"
  /\ note' = IF IsSome(note) THEN TickNote(Unwrap(note), envs["env"], time) ELSE None
  /\ guards' = [guards EXCEPT !["env"] = 0]
  /\ pc' = "set_a_env"
  /\ UNCHANGED <<time, enabled, freq, envTags, envs, queue, midi, renderVars, writer, edits, restVars>>

NextSetPc(e) ==
  CASE e = "a_env"     -> "set_b_env"
    [] e = "b_env"     -> "set_noise_env"
    [] e = "noise_env" -> "set_env"
    [] e = "env"       -> "render"

SetPc(e) ==
  CASE e = "a_env"     -> "set_a_env"
    [] e = "b_env"     -> "set_b_env"
    [] e = "noise_env" -> "set_noise_env"
    [] e = "env"       -> "set_env"

HoldPc(e) ==
  CASE e = "a_env"     -> "hold_a_env"
    [] e = "b_env"     -> "hold_b_env"
    [] e = "noise_env" -> "hold_noise_env"
    [] e = "env"       -> "hold_env"

\* a set_env that sets the tag to zero when a point of the segment is absent
SetEnvOutputZeroes(n, envelope, t) ==
  LET left  == Get(envelope, n.stage)
      right == Get(envelope, Wrap(n.stage + 1))
  IN IF IsSome(left) /\ IsSome(right)
       THEN Some(EnvValue(Unwrap(left), Unwrap(right), t - n.on))
       ELSE Some(Finite(0, 1))

\* the new value of the tag of envelope points `envelope`, or None when nothing is set
SetEnvOutput(n, envelope, t) ==
  LET left  == Get(envelope, n.stage)
      right == Get(envelope, Wrap(n.stage + 1))
  IN IF IsSome(left) /\ IsSome(right)
       THEN Some(EnvValue(Unwrap(left), Unwrap(right), t - n.on))
       ELSE None

\* set_env(param, tag): without a note the lock is not touched
SetEnvRead(e) ==
  /\ pc = SetPc(e)
  /\ IF IsSome(note)
       THEN /\ ~(IsSome(writer) /\ Unwrap(writer).param = e)
            /\ guards' = [guards EXCEPT ![e] = @ + 1]
            /\ pc' = HoldPc(e)
       ELSE /\ pc' = NextSetPc(e)
            /\ UNCHANGED guards
  /\ UNCHANGED <<time, note, enabled, freq, envTags, envs, queue, midi, renderVars, writer, edits, restVars>>

\* set_env(param, tag): the interpolation under the read guard
SetEnvBody(e) ==
  /\ pc = HoldPc(e)
  /\ LET o == SetEnvOutput(Unwrap(note), envs[e], time) IN
     envTags' = IF IsSome(o) THEN [envTags EXCEPT ![e] = Unwrap(o)] ELSE envTags
  /\ guards' = [guards EXCEPT ![e] = 0]
  /\ pc' = NextSetPc(e)
  /\ UNCHANGED <<time, note, enabled, freq, envs, queue, midi, renderVars, writer, edits, restVars>>

\* the buffers the channels of a block are copied from, in the order of the
\* channels, up to the channel the copy returns at
CopiedChannels(n) ==
  [i \in 1 .. (IF n > 2 THEN 2 ELSE n) |-> IF i = 1 THEN "left" ELSE "right"]

\* the status of the block: the return inside the copy, or the one after the loop
BlockStatus(n) == IF n > 2 THEN "Error" ELSE "Normal"

\* a copy that refuses every layout but stereo
RenderStereoOnly ==
  /\ pc = "render"
  /\ IF enabled
       THEN /\ time' = time + BlockTicks
            /\ out' = "rendered"
       ELSE /\ time' = time
            /\ out' = "zero"
  /\ written' = CopiedChannels(channels)
  /\ status' = Some(IF channels # 2 THEN "Error" ELSE "Normal")
  /\ pc' = "midi"
  /\ UNCHANGED <<note, enabled, freq, envTags, envs, queue, midi, guards, writer, edits, restVars>>

\* the temporary buffers, the `enabled` branch and the copy to the channels
Render ==
  /\ pc = "render"
  /\ IF enabled
       THEN /\ time' = time + BlockTicks
            /\ out' = "rendered"
       ELSE /\ time' = time
            /\ out' = "zero"
  /\ written' = CopiedChannels(channels)
  /\ status' = Some(BlockStatus(channels))
  /\ pc' = "midi"
  /\ UNCHANGED <<note, enabled, freq, envTags, envs, queue, midi, guards, writer, edits, restVars>>

----------------------------------------------------------------------------
(* The editor: AppData::event, reached through the Mseg widget callbacks *)

\* Mseg::event OnRemovePoint: only an interior point is passed on
MsegMayRemove(points, index) ==
  index # 0 /\ index # Len(points) - 1

\* MsegGraph::event MouseMove while dragging: the points the clamp can hand
\* to on_changing_point for a point after the first
GraphDragPoints(points, index) ==
  LET right == IF index + 1 < Len(points) THEN points[index + 2].x ELSE MaxTime
      left  == IF index >= 1 THEN points[index].x ELSE 0
  IN { [x |-> x, y |-> y] :
         x \in (left + MinResolution) .. (right - MinResolution),
         y \in IF index = Len(points) - 1 THEN {0} ELSE EditValues }

\* a try_write that does not see the read guards
TryWriteOverReaders(e) == writer = None

\* try_write of the envelope lock
TryWrite(e) == guards[e] = 0 /\ writer = None

\* SynthyEvent::SetEnvPoint: try_write, dropped when the lock is taken
EditorSetEnvPoint ==
  /\ edits < MaxEdits
  /\ writer = None
  /\ edits' = edits + 1
  /\ \E e \in EnvNames \ {"noise_env"} :
       \E index \in 1 .. (Len(envs[e]) - 1) :
         \E p \in GraphDragPoints(envs[e], index) :
           writer' = IF TryWrite(e)
                       THEN Some([param |-> e, kind |-> "set", index |-> index, point |-> p])
                       ELSE None
  /\ UNCHANGED <<audioVars, envs, queue, guards, restVars>>

\* SynthyEvent::RemovePoint: try_write, dropped when the lock is taken
EditorRemovePoint ==
  /\ edits < MaxEdits
  /\ writer = None
  /\ edits' = edits + 1
  /\ \E e \in EnvNames \ {"noise_env"} :
       \E index \in 0 .. (Len(envs[e]) - 1) :
         /\ MsegMayRemove(envs[e], index)
         /\ writer' = IF TryWrite(e)
                        THEN Some([param |-> e, kind |-> "remove", index |-> index,
                                   point |-> [x |-> 0, y |-> 0]])
                        ELSE None
  /\ UNCHANGED <<audioVars, envs, queue, guards, restVars>>

\* Vec::remove
RemoveAt(s, index) ==
  [i \in 1 .. (Len(s) - 1) |-> IF i <= index THEN s[i] ELSE s[i + 1]]

\* point.x = new_point.x; point.y = new_point.y, when get_mut(index) is Some
SetAt(s, index, p) ==
  IF index < Len(s) THEN [s EXCEPT ![index + 1] = p] ELSE s

\* the body of the handler under the write guard, which is then dropped.
\* Vec::remove panics on an index that is not an index of the points
EditorCommit ==
  /\ IsSome(writer)
  /\ LET w == Unwrap(writer) IN
     IF w.kind = "remove" /\ w.index >= Len(envs[w.param])
       THEN /\ ui_panicked' = TRUE
            /\ UNCHANGED envs
       ELSE /\ envs' = [envs EXCEPT ![w.param] =
                         IF w.kind = "set" THEN SetAt(@, w.index, w.point)
                                           ELSE RemoveAt(@, w.index)]
            /\ UNCHANGED ui_panicked
  /\ writer' = None
  /\ UNCHANGED <<audioVars, queue, guards, edits, envelopeVars, xl, channels, call, zoomVars, padVars>>
  /\ UNCHANGED <<active_point_id, is_dragging_point, event_queue, inputs>>

----------------------------------------------------------------------------
(* AppData::event on the SynthyEvents of the envelopes, whatever view sent  *)
(* them: an event carries the index its view held when it emitted it, which *)
(* may be stale when the handler runs.  `call` keeps the event handled last.*)

SynthyEvent(kind, param, index, point) ==
  [kind |-> kind, param |-> param, index |-> index, point |-> point]

\* the envelopes the events are sent for
HandlerParams == {"a_env", "env"}

\* the point a SetEnvPoint carries
HandlerPoints == { [x |-> 3, y |-> 4] }

\* SetEnvPoint for an interior point of its envelope, for the last point and
\* for the first index past the points
SetEnvPointEvents ==
  UNION { { SynthyEvent("set", e, index, p) :
              index \in {1, Len(envs[e]) - 1, Len(envs[e])}, p \in HandlerPoints } :
          e \in HandlerParams }

\* RemovePoint for the indices Mseg::event passes on: the interior points
RemovePointEvents(params) ==
  UNION { { SynthyEvent("remove", e, index, [x |-> 0, y |-> 0]) :
              index \in { i \in 0 .. (Len(envs[e]) - 1) : MsegMayRemove(envs[e], i) } } :
          e \in params }

\* the handler up to try_write: the event is dropped when the lock is taken;
\* the body runs in EditorCommit
HandleSynthyEvent(limit, events) ==
  /\ edits < limit
  /\ ~ui_panicked
  /\ writer = None
  /\ edits' = edits + 1
  /\ \E ev \in events :
       /\ call' = ev
       /\ writer' = IF TryWrite(ev.param)
                      THEN Some([param |-> ev.param, kind |-> ev.kind,
                                 index |-> ev.index, point |-> ev.point])
                      ELSE None
  /\ UNCHANGED <<audioVars, envs, queue, guards, graphVars, envelopeVars, xl, channels,
                 zoomVars, padVars>>

----------------------------------------------------------------------------
(* The Mseg widget of the master envelope: the window events of the user,   *)
(* MsegGraph::event, Mseg::event and AppData::event, each taking the event  *)
(* at the head of the event queue of the UI thread; an emitted event goes   *)
(* to the back of the queue.  The window events of a frame are queued       *)
(* together, and the queue is then flushed until it is empty, the emitted   *)
(* events included, before the window events of the next frame are taken.   *)
(* A cursor is given by its data position.                                  *)

MsegParam == "env"

ZeroPoint == [x |-> 0, y |-> 0]

UiEvent(kind, button, index, point) ==
  [kind |-> kind, button |-> button, index |-> index, point |-> point]

\* cursor positions away from the points of the default envelope, some of
\* them outside the graph
FreePositions ==
  { [x |-> -1, y |-> 12], [x |-> 3, y |-> 5], [x |-> 6, y |-> -2], [x |-> 15, y |-> 5] }

\* the window events the user can send: a button, or a move of the cursor
\* onto a point or to a free position
WindowEvents(points) ==
  { UiEvent("MouseDown", "Left", 0, ZeroPoint),
    UiEvent("MouseDown", "Right", 0, ZeroPoint),
    UiEvent("MouseUp", "Left", 0, ZeroPoint) }
  \cup { UiEvent("MouseMove", "None", 0, pos) :
           pos \in FreePositions \cup { points[i] : i \in 1 .. Len(points) } }

\* the kinds of vizia::WindowEvent the views match
WindowKinds == {"MouseDown", "MouseUp", "MouseMove"}

\* the queue holds window events only: no emitted event waits for its handler
FrameOpen ==
  \A i \in 1 .. Len(event_queue) : event_queue[i].kind \in WindowKinds

UserInput ==
  /\ inputs < MaxInputs
  /\ ~ui_panicked
  /\ FrameOpen
  /\ inputs' = inputs + 1
  /\ \E ev \in WindowEvents(envs[MsegParam]) : event_queue' = Append(event_queue, ev)
  /\ UNCHANGED <<audioVars, envs, queue, guards, writer, edits, envelopeVars, xl, channels, call, zoomVars, padVars>>
  /\ UNCHANGED <<active_point_id, is_dragging_point, ui_panicked>>

\* the UI thread takes the next event
Dispatching(kinds) ==
  /\ ~ui_panicked
  /\ writer = None
  /\ event_queue # <<>>
  /\ Head(event_queue).kind \in kinds

Min(a, b) == IF a <= b THEN a ELSE b
Max(a, b) == IF a >= b THEN a ELSE b

\* glam Vec2::clamp (component-wise max with the lower bound, then min with
\* the upper bound)
Clamp(v, lo, hi) == Min(Max(v, lo), hi)

DistanceSquared(p, q) == (p.x - q.x) * (p.x - q.x) + (p.y - q.y) * (p.y - q.y)

\* the first of the points closest to pos among those within radius pixels
ClosestWithin(points, pos, radius) ==
  LET near == { i \in 0 .. (Len(points) - 1) :
                  DistanceSquared(points[i + 1], pos) * PixelsPerUnit * PixelsPerUnit
                    <= radius * radius }
  IN IF near = {} THEN None
     ELSE Some(CHOOSE i \in near : \A j \in near :
                 \/ DistanceSquared(points[i + 1], pos) < DistanceSquared(points[j + 1], pos)
                 \/ /\ DistanceSquared(points[i + 1], pos) = DistanceSquared(points[j + 1], pos)
                    /\ i <= j)

\* the point handed to on_changing_point while dragging point active_id with
\* the cursor at pos; left is the result of points.get(active_id - 1)
GraphDragPoint(points, active_id, pos, left) ==
  LET new_v == IF active_id # 0 THEN pos ELSE ZeroPoint
      y == IF active_id = Len(points) - 1 THEN 0 ELSE new_v.y
      right == Get(points, active_id + 1)
      right_bound == (IF IsSome(right) THEN Unwrap(right).x ELSE MaxTime) - MinResolution
      left_bound == (IF IsSome(left) THEN Unwrap(left).x ELSE 0) + MinResolution
  IN [x |-> Clamp(new_v.x, left_bound, right_bound), y |-> Clamp(y, 0, 10)]

\* MsegGraph::event, WindowEvent::MouseDown
GraphMouseDown ==
  /\ Dispatching({"MouseDown"})
  /\ IF Head(event_queue).button = "Left"
       THEN /\ is_dragging_point' = (is_dragging_point \/ IsSome(active_point_id))
            /\ event_queue' = Tail(event_queue)
       ELSE IF IsSome(active_point_id)
         THEN /\ is_dragging_point' = FALSE
              /\ event_queue' = Append(Tail(event_queue),
                     UiEvent("OnRemovePoint", "None", Unwrap(active_point_id), ZeroPoint))
         ELSE /\ event_queue' = Tail(event_queue)
              /\ UNCHANGED is_dragging_point
  /\ UNCHANGED <<audioVars, envs, queue, guards, writer, edits, envelopeVars, xl, channels, call, zoomVars, padVars>>
  /\ UNCHANGED <<active_point_id, inputs, ui_panicked>>

\* MsegGraph::event, WindowEvent::MouseUp
GraphMouseUp ==
  /\ Dispatching({"MouseUp"})
  /\ is_dragging_point' = FALSE
  /\ event_queue' = Tail(event_queue)
  /\ UNCHANGED <<audioVars, envs, queue, guards, writer, edits, envelopeVars, xl, channels, call, zoomVars, padVars>>
  /\ UNCHANGED <<active_point_id, inputs, ui_panicked>>

\* MsegGraph::event, WindowEvent::MouseMove.  Dragging point 0 evaluates
\* active_id - 1 on a usize: the build with overflow checks panics, the
\* build without them wraps and points.get finds no point
GraphMouseMove ==
  /\ Dispatching({"MouseMove"})
  /\ LET points == envs[MsegParam]
         pos == Head(event_queue).point IN
     IF is_dragging_point
       THEN IF active_point_id = None
         THEN /\ ui_panicked' = TRUE
              /\ UNCHANGED <<event_queue, active_point_id>>
         ELSE LET active_id == Unwrap(active_point_id) IN
              \/ /\ active_id = 0
                 /\ ui_panicked' = TRUE
                 /\ UNCHANGED <<event_queue, active_point_id>>
              \/ /\ event_queue' = Append(Tail(event_queue),
                        UiEvent("OnChangingPoint", "None", active_id,
                                GraphDragPoint(points, active_id, pos,
                                               Get(points, Wrap(active_id - 1)))))
                 /\ UNCHANGED <<ui_panicked, active_point_id>>
       ELSE /\ active_point_id' = ClosestWithin(points, pos, HoverRadius)
            /\ event_queue' = Tail(event_queue)
            /\ UNCHANGED ui_panicked
  /\ UNCHANGED <<audioVars, envs, queue, guards, writer, edits, envelopeVars, xl, channels, call, zoomVars, padVars>>
  /\ UNCHANGED <<is_dragging_point, inputs>>

\* Mseg::event: OnChangingPoint is passed on, OnRemovePoint only for an
\* interior point of the points as they are now; the callbacks of ui.rs
\* emit the SynthyEvent
MsegEvent ==
  /\ Dispatching({"OnChangingPoint", "OnRemovePoint"})
  /\ LET ev == Head(event_queue) IN
     event_queue' =
       IF ev.kind = "OnChangingPoint"
         THEN Append(Tail(event_queue), UiEvent("SetEnvPoint", "None", ev.index, ev.point))
         ELSE IF MsegMayRemove(envs[MsegParam], ev.index)
           THEN Append(Tail(event_queue), UiEvent("RemovePoint", "None", ev.index, ZeroPoint))
           ELSE Tail(event_queue)
  /\ UNCHANGED <<audioVars, envs, queue, guards, writer, edits, envelopeVars, xl, channels, call, zoomVars, padVars>>
  /\ UNCHANGED <<active_point_id, is_dragging_point, inputs, ui_panicked>>

\* AppData::event, SetEnvPoint and RemovePoint: try_write; the body runs in
\* EditorCommit
AppDataEvent ==
  /\ Dispatching({"SetEnvPoint", "RemovePoint"})
  /\ LET ev == Head(event_queue) IN
     writer' = IF TryWrite(MsegParam)
                 THEN Some([param |-> MsegParam,
                            kind |-> IF ev.kind = "SetEnvPoint" THEN "set" ELSE "remove",
                            index |-> ev.index, point |-> ev.point])
                 ELSE None
  /\ event_queue' = Tail(event_queue)
  /\ UNCHANGED <<audioVars, envs, queue, guards, edits, envelopeVars, xl, channels, call, zoomVars, padVars>>
  /\ UNCHANGED <<active_point_id, is_dragging_point, inputs, ui_panicked>>

----------------------------------------------------------------------------

\* one step of the audio thread
Audio ==
  \/ ProcessMidi
  \/ NoteOffRead
  \/ NoteOffBody
  \/ NoteOffExit
  \/ TickRead
  \/ TickBody
  \/ \E e \in EnvNames : SetEnvRead(e)
  \/ \E e \in EnvNames : SetEnvBody(e)
  \/ Render

\* The voice engine on its own: any restored envelopes with at most one of
\* them differing from the default, and no editor
Init ==
  InitWith({f \in [EnvNames -> InitEnvs] :
              Cardinality({e \in EnvNames : f[e] # DefaultEnv}) <= 1})

Next ==
  \/ HostSendMidi(MidiEvents)
  \/ Audio

Spec == Init /\ [][Next]_vars

\* The voice engine beside the editor: the default envelopes, one key
EditMidiEvents ==
  { [type |-> "NoteOn", note |-> 60, velocity |-> 100],
    [type |-> "NoteOff", note |-> 60, velocity |-> 64] }

InitEdit == InitWith({[e \in EnvNames |-> DefaultEnv]})

NextEdit ==
  \/ HostSendMidi(EditMidiEvents)
  \/ Audio
  \/ EditorSetEnvPoint
  \/ EditorRemovePoint
  \/ EditorCommit

SpecEdit == InitEdit /\ [][NextEdit]_vars

\* The voice engine under a host that hands it any number of channels
InitChannels ==
  /\ InitEngine({[e \in EnvNames |-> DefaultEnv]})
  /\ xl = NoCall
  /\ call = NoCall
  /\ channels \in 0 .. MaxChannels

NextChannels ==
  \/ HostSendMidi(EditMidiEvents)
  \/ Audio

SpecChannels == InitChannels /\ [][NextChannels]_vars

\* The voice engine beside an editor that removes points of the master
\* envelope
NextRemovals ==
  \/ HostSendMidi(EditMidiEvents)
  \/ Audio
  \/ HandleSynthyEvent(MaxRemovals, RemovePointEvents({"env"}))
  \/ EditorCommit

SpecRemovals == InitEdit /\ [][NextRemovals]_vars

\* The voice engine beside the handlers of AppData::event, on the events a
\* view can send
NextHandlers ==
  \/ HostSendMidi(EditMidiEvents)
  \/ Audio
  \/ HandleSynthyEvent(MaxEdits, SetEnvPointEvents)
  \/ HandleSynthyEvent(MaxEdits, RemovePointEvents({MsegParam}))
  \/ EditorCommit

SpecHandlers == InitEdit /\ [][NextHandlers]_vars

\* The voice engine beside an editor that moves one point of the operator-A
\* envelope or of the master envelope
LockEvents ==
  { SynthyEvent("set", e, 1, p) : e \in HandlerParams, p \in HandlerPoints }

NextLock ==
  \/ HostSendMidi(EditMidiEvents)
  \/ Audio
  \/ HandleSynthyEvent(MaxEdits, LockEvents)
  \/ EditorCommit

SpecLock == InitEdit /\ [][NextLock]_vars

\* the same under a scheduler that runs the audio thread whenever it can run
\* and lets a handler that holds the write guard return
SpecLockFair == SpecLock /\ WF_vars(Audio) /\ WF_vars(EditorCommit)

----------------------------------------------------------------------------
(* The egui Envelope widgets: one call of Envelope::ui on the envelope e,   *)
(* with the response r that egui hands it for the frame.                    *)

EnvelopeParams == {"a_env", "env"}

Response(started, released, clicked2, down2, pos, delta) ==
  [drag_started |-> started, drag_released |-> released,
   secondary_clicked |-> clicked2, secondary_down |-> down2,
   pos |-> pos, delta |-> delta]

\* Vec::insert
InsertAt(s, index, p) ==
  [i \in 1 .. (Len(s) + 1) |->
     IF i <= index THEN s[i] ELSE IF i = index + 1 THEN p ELSE s[i - 1]]

\* "Perform a drag on the node": the point saved_id moved by the drag delta
\* and bumped away from its neighbours
EnvelopeDrag(points, saved_id, delta) ==
  IF saved_id = 0 \/ saved_id >= Len(points) THEN points
  ELSE LET prev == Get(points, saved_id - 1)
           next == Get(points, saved_id + 1)
           x0 == points[saved_id + 1].x + delta.x
           x1 == IF IsSome(prev) /\ x0 <= Unwrap(prev).x + BumpAmount
                   THEN Unwrap(prev).x + BumpAmount ELSE x0
           x2 == IF IsSome(next) /\ x1 >= Unwrap(next).x - BumpAmount
                   THEN Unwrap(next).x - BumpAmount ELSE x1
           y0 == IF saved_id = Len(points) - 1 THEN 0 ELSE points[saved_id + 1].y + delta.y
       IN [points EXCEPT ![saved_id + 1] = [x |-> x2, y |-> Clamp(y0, 0, 10)]]

\* a click-to-add that takes the last point right of the click
EnvelopeInsertIndexLast(points, pos) ==
  LET rightOf == { i \in 0 .. (Len(points) - 1) : points[i + 1].x > pos.x }
      leftOf  == { i \in 0 .. (Len(points) - 1) : points[i + 1].x < pos.x }
  IN IF rightOf # {} /\ leftOf # {}
       THEN Some(CHOOSE i \in rightOf : \A j \in rightOf : i >= j)
       ELSE None

\* "Click to add a point": the index of the first point right of the click,
\* when some point lies right of it and some point lies left of it
EnvelopeInsertIndex(points, pos) ==
  LET rightOf == { i \in 0 .. (Len(points) - 1) : points[i + 1].x > pos.x }
      leftOf  == { i \in 0 .. (Len(points) - 1) : points[i + 1].x < pos.x }
  IN IF rightOf # {} /\ leftOf # {}
       THEN Some(CHOOSE i \in rightOf : \A j \in rightOf : i <= j)
       ELSE None

\* the points after the drag or click-to-add part of the call
EnvelopeEdited(points, current, hovered_point, r) ==
  IF IsSome(current)
    THEN EnvelopeDrag(points, Unwrap(current), r.delta)
    ELSE IF /\ hovered_point = None /\ IsSome(r.pos)
            /\ r.drag_started /\ ~r.secondary_down
            /\ IsSome(EnvelopeInsertIndex(points, Unwrap(r.pos)))
      THEN InsertAt(points, Unwrap(EnvelopeInsertIndex(points, Unwrap(r.pos))), Unwrap(r.pos))
      ELSE points

\* "Respond to removing nodes": the guard compares with the points read at
\* the start of the call
EnvelopeRemoves(points, current, r) ==
  /\ r.secondary_clicked
  /\ IsSome(current)
  /\ Unwrap(current) # 0 /\ Unwrap(current) # Len(points) - 1

\* Envelope::ui.  The widget writes under try_write only; the lock is looked
\* at once for the call
EnvelopeUi(e, r) ==
  LET current == current_node_id
      points == envs[e]
      hovered_point == IF IsSome(r.pos)
                         THEN ClosestWithin(points, Unwrap(r.pos), HintSize)
                         ELSE None
      saved == IF r.drag_started /\ current = None THEN hovered_point ELSE current
      edited == IF TryWrite(e) THEN EnvelopeEdited(points, current, hovered_point, r)
                               ELSE points
  IN /\ current_node_id' = IF r.drag_released THEN None ELSE saved
     /\ IF EnvelopeRemoves(points, current, r) /\ TryWrite(e)
          THEN IF Unwrap(current) >= Len(edited)
            THEN /\ ui_panicked' = TRUE
                 /\ envs' = [envs EXCEPT ![e] = edited]
            ELSE /\ envs' = [envs EXCEPT ![e] = RemoveAt(edited, Unwrap(current))]
                 /\ UNCHANGED ui_panicked
          ELSE /\ envs' = [envs EXCEPT ![e] = edited]
               /\ UNCHANGED ui_panicked

\* the positions a press can have: on a point, under or over a point, free
PressPositionsBeside(free, points) ==
  free
  \cup { points[i] : i \in 1 .. Len(points) }
  \cup { [x |-> points[i].x, y |-> 3] : i \in 1 .. Len(points) }

PressPositions(points) == PressPositionsBeside(FreePositions, points)

\* what a frame of dragging moves the pointer by
DragDeltas ==
  { [x |-> -3, y |-> 0], [x |-> 1, y |-> 4], [x |-> 5, y |-> -20] }

\* the frame in which a button goes down on the widget of e, for a user who
\* presses at most limit times, on the widgets params, on or under a point or
\* at one of the positions free
EnvelopePressOn(limit, params, free) ==
  /\ inputs < limit /\ ~ui_panicked
  /\ pointer = None
  /\ inputs' = inputs + 1
  /\ \E e \in params : \E button \in {"Primary", "Secondary"} :
       \E pos \in PressPositionsBeside(free, envs[e]) :
         /\ pointer' = Some([widget |-> e, button |-> button, moved |-> FALSE])
         /\ EnvelopeUi(e, Response(TRUE, FALSE, FALSE, button = "Secondary",
                                   Some(pos), ZeroPoint))
  /\ UNCHANGED <<audioVars, queue, guards, writer, edits, xl, channels, call, zoomVars, padVars>>
  /\ UNCHANGED <<active_point_id, is_dragging_point, event_queue>>

EnvelopePress == EnvelopePressOn(MaxInputs, EnvelopeParams, FreePositions)

\* a frame in which the pressed pointer moves
EnvelopeMove ==
  /\ inputs < MaxInputs /\ ~ui_panicked
  /\ IsSome(pointer)
  /\ inputs' = inputs + 1
  /\ pointer' = Some([Unwrap(pointer) EXCEPT !.moved = TRUE])
  /\ \E delta \in DragDeltas :
       EnvelopeUi(Unwrap(pointer).widget,
                  Response(FALSE, FALSE, FALSE, Unwrap(pointer).button = "Secondary",
                           None, delta))
  /\ UNCHANGED <<audioVars, queue, guards, writer, edits, xl, channels, call, zoomVars, padVars>>
  /\ UNCHANGED <<active_point_id, is_dragging_point, event_queue>>

\* the frame in which the button goes up: a press that did not move is a click
EnvelopeRelease ==
  /\ inputs < MaxInputs /\ ~ui_panicked
  /\ IsSome(pointer)
  /\ inputs' = inputs + 1
  /\ pointer' = None
  /\ EnvelopeUi(Unwrap(pointer).widget,
                Response(FALSE, TRUE,
                         Unwrap(pointer).button = "Secondary" /\ ~Unwrap(pointer).moved,
                         FALSE, None, ZeroPoint))
  /\ UNCHANGED <<audioVars, queue, guards, writer, edits, xl, channels, call, zoomVars, padVars>>
  /\ UNCHANGED <<active_point_id, is_dragging_point, event_queue>>

\* the call of a frame on a widget the pointer is not pressed on
EnvelopeIdle ==
  /\ ~ui_panicked
  /\ \E e \in EnvelopeParams :
       /\ IF IsSome(pointer) THEN Unwrap(pointer).widget # e ELSE TRUE
       /\ EnvelopeUi(e, Response(FALSE, FALSE, FALSE, FALSE, None, ZeroPoint))
  /\ UNCHANGED <<audioVars, queue, guards, writer, edits, xl, channels, call, zoomVars, padVars>>
  /\ UNCHANGED <<active_point_id, is_dragging_point, event_queue, inputs, pointer>>

NextEnvelope ==
  \/ EnvelopePress
  \/ EnvelopeMove
  \/ EnvelopeRelease
  \/ EnvelopeIdle

SpecEnvelope == InitEdit /\ [][NextEnvelope]_vars

\* the free positions of a click beside the voice engine: between two
\* points, right of every point
ClickPositions == { [x |-> 3, y |-> 5], [x |-> 15, y |-> 5] }

\* The voice engine beside a user who presses on the Envelope widget of the
\* master envelope
NextClick ==
  \/ HostSendMidi(EditMidiEvents)
  \/ Audio
  \/ EnvelopePressOn(MaxEdits, {MsegParam}, ClickPositions)

SpecClick == InitEdit /\ [][NextClick]_vars

\* The Mseg widget of the master envelope and its user, the engine idle
NextMseg ==
  \/ UserInput
  \/ GraphMouseDown
  \/ GraphMouseUp
  \/ GraphMouseMove
  \/ MsegEvent
  \/ AppDataEvent
  \/ EditorCommit

SpecMseg == InitEdit /\ [][NextMseg]_vars

----------------------------------------------------------------------------
(* The two definitions of xlerp, on exact rationals: src/src/util.rs and    *)
(* src/src/util/math.rs.  The arguments are chosen so that every power is   *)
(* rational.                                                                *)

RatLeq(p, q) == p.n * q.d <= q.n * p.d
\* f32 arithmetic on fractions: a NaN or infinite operand gives a NaN or
\* infinite result
RatSub(p, q) ==
  IF p.fin /\ q.fin THEN Finite(p.n * q.d - q.n * p.d, p.d * q.d) ELSE NonFinite
RatMul(p, q) ==
  IF p.fin /\ q.fin THEN Finite(p.n * q.n, p.d * q.d) ELSE NonFinite
RatInv(p) == IF p.n > 0 THEN Finite(p.d, p.n) ELSE Finite(-p.d, -p.n)
RatAbs(p) == Finite(Abs(p.n), p.d)

\* the square root of a square of sixteenths
RatSqrt(p) ==
  CHOOSE r \in { Finite(k, 4) : k \in 0 .. 4 } : RatMul(r, r) = p

\* f32::powf for the exponents 0, 1/2, 1 and 2; x^0 is 1 for every x
Powf(t, exp) ==
  CASE exp = Finite(0, 1) -> Finite(1, 1)
    [] exp = Finite(1, 2) -> RatSqrt(t)
    [] exp = Finite(1, 1) -> t
    [] exp = Finite(2, 1) -> RatMul(t, t)

\* the assertions with a half-open range of t
XlerpAssertsHalfOpen(t, curve) ==
  /\ RatLeq(Finite(0, 1), t) /\ ~RatLeq(Finite(1, 1), t)
  /\ RatLeq(Finite(-1, 1), curve) /\ RatLeq(curve, Finite(1, 1))

\* the two assertions at the head of xlerp
XlerpAsserts(t, curve) ==
  /\ RatLeq(Finite(0, 1), t) /\ RatLeq(t, Finite(1, 1))
  /\ RatLeq(Finite(-1, 1), curve) /\ RatLeq(curve, Finite(1, 1))

\* the exponent without the inversion on the negative side
XlerpExpNoInverse(curve) ==
  IF curve.n > 0
    THEN RatSub(Finite(1, 1), curve)
    ELSE RatSub(Finite(1, 1), RatAbs(curve))

\* the exponent for a curve other than -1
XlerpExp(curve) ==
  IF curve.n > 0
    THEN RatSub(Finite(1, 1), curve)
    ELSE RatInv(RatSub(Finite(1, 1), RatAbs(curve)))

\* xlerp of src/src/util.rs: None when an assertion panics
util_xlerp(a, b, t, curve) ==
  IF ~XlerpAsserts(t, curve) THEN None
  ELSE LET exp == IF curve = Finite(-1, 1) THEN Finite(0, 1) ELSE XlerpExp(curve)
           adjusted == Powf(t, exp)
       IN Some(Lerp(a, b, adjusted.n, adjusted.d))

\* xlerp of src/src/util/math.rs: None when an assertion panics
math_xlerp(a, b, t, curve) ==
  IF ~XlerpAsserts(t, curve) THEN None
  ELSE IF curve = Finite(-1, 1) THEN Some(Finite(0, 1))
  ELSE LET adjusted == Powf(t, XlerpExp(curve))
       IN Some(Lerp(a, b, adjusted.n, adjusted.d))

XlerpEnds == {-1, 0, 1, 2}
XlerpTs ==
  { Finite(-1, 4), Finite(0, 1), Finite(1, 16), Finite(1, 4), Finite(9, 16),
    Finite(1, 1), Finite(5, 4) }
XlerpCurves ==
  { Finite(-3, 2), Finite(-1, 1), Finite(-1, 2), Finite(0, 1), Finite(1, 2),
    Finite(1, 1), Finite(3, 2) }

\* a call of xlerp with its arguments, before it is evaluated
InitXlerp ==
  /\ InitEngine({[e \in EnvNames |-> DefaultEnv]})
  /\ xl \in [a : XlerpEnds, b : XlerpEnds, t : XlerpTs, curve : XlerpCurves,
              done : {FALSE}, util : {None}, math : {None}]
  /\ call = NoCall
  /\ channels = DefaultNumOutputs

\* both definitions are evaluated on the arguments
XlerpCall ==
  /\ ~xl.done
  /\ xl' = [xl EXCEPT !.done = TRUE,
                      !.util = util_xlerp(xl.a, xl.b, xl.t, xl.curve),
                      !.math = math_xlerp(xl.a, xl.b, xl.t, xl.curve)]
  /\ UNCHANGED <<audioVars, envs, queue, guards, writer, edits, graphVars, envelopeVars,
                 channels, call, zoomVars, padVars>>

NextXlerp == XlerpCall

SpecXlerp == InitXlerp /\ [][NextXlerp]_vars

----------------------------------------------------------------------------
(* The Zoomer of the master envelope: the presses on its handles, the moves *)
(* of the cursor while it holds the capture, and the way of a new start or  *)
(* end through Mseg::event to AppData::event.  The cursor is given by its   *)
(* x relative to the Zoomer, divided by the width, in tenths.               *)

\* the elements of the Zoomer a press can land on, and what on_press emits
ZoomerParts == {"SetStart", "SetEnd", "SetBoth"}

\* cursor positions, two of them outside the Zoomer
ZoomCursors == {-2, 1, 5, 9, 12}

ZoomEvent(kind, x) == UiEvent(kind, "Left", 0, [x |-> x, y |-> 0])

\* the press on a part of the Zoomer is told apart by the x of the event:
\* the position of the part in ZoomerPartAt
ZoomerPartAt(x) ==
  CASE x = 0 -> "SetStart"
    [] x = 1 -> "SetEnd"
    [] OTHER -> "SetBoth"

ZoomWindowEvents ==
  { ZoomEvent("MouseDown", x) : x \in 0 .. 2 }
  \cup { ZoomEvent("MouseUp", 0) }
  \cup { ZoomEvent("MouseMove", x) : x \in ZoomCursors }

ZoomInput ==
  /\ inputs < MaxInputs
  /\ ~ui_panicked
  /\ FrameOpen
  /\ inputs' = inputs + 1
  /\ \E ev \in ZoomWindowEvents : event_queue' = Append(event_queue, ev)
  /\ UNCHANGED <<audioVars, envs, queue, guards, writer, edits, envelopeVars, xl, channels,
                 call, zoomVars, padVars>>
  /\ UNCHANGED <<active_point_id, is_dragging_point, ui_panicked>>

\* what every step of the Zoomer leaves alone
ZoomerFrame ==
  /\ UNCHANGED <<audioVars, envs, queue, guards, writer, edits, envelopeVars, xl, channels,
                 call, padVars>>
  /\ UNCHANGED <<active_point_id, is_dragging_point, inputs>>

\* on_press of the bar or of a handle emits its ZoomerEvent; the Zoomer takes
\* the capture on WindowEvent::MouseDown(Left)
ZoomerMouseDown ==
  /\ Dispatching({"MouseDown"})
  /\ event_queue' = Append(Tail(event_queue),
                           ZoomEvent(ZoomerPartAt(Head(event_queue).point.x), 0))
  /\ UNCHANGED <<zoomVars, ui_panicked>>
  /\ ZoomerFrame

\* WindowEvent::MouseUp(Left): cx.emit(ZoomerEvent::FinishSet)
ZoomerMouseUp ==
  /\ Dispatching({"MouseUp"})
  /\ event_queue' = Append(Tail(event_queue), ZoomEvent("FinishSet", 0))
  /\ UNCHANGED <<zoomVars, ui_panicked>>
  /\ ZoomerFrame

\* a ZoomerEvent reaches Zoomer::event: self.status = *ev
ZoomerSetStatus ==
  /\ Dispatching(ZoomerParts \cup {"FinishSet"})
  /\ zoomer_status' = Head(event_queue).kind
  /\ event_queue' = Tail(event_queue)
  /\ UNCHANGED <<zoom_view, ui_panicked>>
  /\ ZoomerFrame

\* f32::clamp panics when min > max
ClampPanics(lo, hi) == lo > hi

\* a move that lets the start come up to the end
ZoomerMouseMoveNoGap ==
  /\ Dispatching({"MouseMove"})
  /\ LET x == Head(event_queue).point.x IN
     CASE zoomer_status = "SetStart" ->
            IF ClampPanics(0, zoom_view.end)
              THEN ui_panicked' = TRUE /\ UNCHANGED event_queue
              ELSE /\ event_queue' = Append(Tail(event_queue),
                        ZoomEvent("OnChangingRangeStart", Clamp(x, 0, zoom_view.end)))
                   /\ UNCHANGED ui_panicked
       [] zoomer_status = "SetEnd" ->
            IF ClampPanics(zoom_view.start + SmallestRange, FullRange)
              THEN ui_panicked' = TRUE /\ UNCHANGED event_queue
              ELSE /\ event_queue' = Append(Tail(event_queue),
                        ZoomEvent("OnChangingRangeEnd",
                                  Clamp(x, zoom_view.start + SmallestRange, FullRange)))
                   /\ UNCHANGED ui_panicked
       [] OTHER -> event_queue' = Tail(event_queue) /\ UNCHANGED ui_panicked
  /\ UNCHANGED zoomVars
  /\ ZoomerFrame

\* WindowEvent::MouseMove in Zoomer::event: the new start or end, clamped
\* against the range the lens holds now, goes to the callback
ZoomerMouseMove ==
  /\ Dispatching({"MouseMove"})
  /\ LET x == Head(event_queue).point.x IN
     CASE zoomer_status = "SetStart" ->
            IF ClampPanics(0, zoom_view.end - SmallestRange)
              THEN ui_panicked' = TRUE /\ UNCHANGED event_queue
              ELSE /\ event_queue' = Append(Tail(event_queue),
                        ZoomEvent("OnChangingRangeStart",
                                  Clamp(x, 0, zoom_view.end - SmallestRange)))
                   /\ UNCHANGED ui_panicked
       [] zoomer_status = "SetEnd" ->
            IF ClampPanics(zoom_view.start + SmallestRange, FullRange)
              THEN ui_panicked' = TRUE /\ UNCHANGED event_queue
              ELSE /\ event_queue' = Append(Tail(event_queue),
                        ZoomEvent("OnChangingRangeEnd",
                                  Clamp(x, zoom_view.start + SmallestRange, FullRange)))
                   /\ UNCHANGED ui_panicked
       [] OTHER -> event_queue' = Tail(event_queue) /\ UNCHANGED ui_panicked
  /\ UNCHANGED zoomVars
  /\ ZoomerFrame

\* Mseg::event, OnChangingRangeStart and OnChangingRangeEnd: the callbacks of
\* ui.rs emit SetEnvStart and SetEnvEnd
MsegRangeEvent ==
  /\ Dispatching({"OnChangingRangeStart", "OnChangingRangeEnd"})
  /\ LET ev == Head(event_queue) IN
     event_queue' = Append(Tail(event_queue),
       ZoomEvent(IF ev.kind = "OnChangingRangeStart" THEN "SetEnvStart" ELSE "SetEnvEnd",
                 ev.point.x))
  /\ UNCHANGED <<zoomVars, ui_panicked>>
  /\ ZoomerFrame

\* AppData::event, SetEnvStart and SetEnvEnd: the other bound is kept
AppDataRangeEvent ==
  /\ Dispatching({"SetEnvStart", "SetEnvEnd"})
  /\ LET ev == Head(event_queue) IN
     zoom_view' = IF ev.kind = "SetEnvStart"
                    THEN [start |-> ev.point.x, end |-> zoom_view.end]
                    ELSE [start |-> zoom_view.start, end |-> ev.point.x]
  /\ event_queue' = Tail(event_queue)
  /\ UNCHANGED <<zoomer_status, ui_panicked>>
  /\ ZoomerFrame

NextZoom ==
  \/ ZoomInput
  \/ ZoomerMouseDown
  \/ ZoomerMouseUp
  \/ ZoomerSetStatus
  \/ ZoomerMouseMove
  \/ MsegRangeEvent
  \/ AppDataRangeEvent

SpecZoom == InitEdit /\ [][NextZoom]_vars

----------------------------------------------------------------------------
(* The coordinate conversions of the Mseg graph (src/src/widgets/mseg/       *)
(* util.rs), on exact rationals: a point is a pair of fractions, a bounding *)
(* box has x, y, w, h, a zoom range has start and end.                      *)

Rat(n) == Finite(n, 1)
RatAdd(p, q) ==
  IF p.fin /\ q.fin THEN Finite(p.n * q.d + q.n * p.d, p.d * q.d) ELSE NonFinite

\* f32 division: a division by zero is infinite or NaN
RatDiv(p, q) ==
  IF ~(p.fin /\ q.fin) \/ q.n = 0 THEN NonFinite
  ELSE IF q.n > 0 THEN Finite(p.n * q.d, p.d * q.n)
  ELSE Finite(-(p.n * q.d), p.d * (-q.n))

Vec2(x, y) == [x |-> x, y |-> y]
BoundingBox(x, y, w, h) == [x |-> Rat(x), y |-> Rat(y), w |-> Rat(w), h |-> Rat(h)]
RangeInclusive(start, end) == [start |-> start, end |-> end]

\* a conversion to data that leaves out the offset of the zoom window
_ui_to_data_pos_unshifted(bounds, ui_point, range, max) ==
  LET rel   == Vec2(RatSub(ui_point.x, bounds.x), RatSub(ui_point.y, bounds.y))
      y     == RatDiv(RatSub(bounds.h, rel.y), bounds.h)
      scale == RatMul(RatSub(range.end, range.start), max)
      x     == RatMul(RatDiv(rel.x, bounds.w), scale)
  IN Vec2(x, y)

_ui_to_data_pos(bounds, ui_point, range, max) ==
  LET rel         == Vec2(RatSub(ui_point.x, bounds.x), RatSub(ui_point.y, bounds.y))
      y           == RatDiv(RatSub(bounds.h, rel.y), bounds.h)
      offset_data == RatMul(range.start, max)
      scale       == RatMul(RatSub(range.end, range.start), max)
      x           == RatAdd(RatMul(RatDiv(rel.x, bounds.w), scale), offset_data)
  IN Vec2(x, y)

_data_to_ui_pos(bounds, point, range, max) ==
  LET y      == RatSub(bounds.h, RatMul(point.y, bounds.h))
      offset == RatMul(range.start, max)
      scale  == RatDiv(Rat(1), RatMul(RatSub(range.end, range.start), max))
      x      == RatMul(RatMul(RatSub(point.x, offset), scale), bounds.w)
  IN Vec2(RatAdd(x, bounds.x), RatAdd(y, bounds.y))

\* the rect of the tests and a second box
ConvBounds == { BoundingBox(10, 20, 200, 80), BoundingBox(0, 5, 64, 48) }
ConvRanges ==
  { RangeInclusive(Rat(0), Rat(1)), RangeInclusive(Finite(1, 5), Finite(2, 5)),
    RangeInclusive(Finite(1, 2), Finite(3, 5)) }
ConvMaxes == { Rat(2), Rat(MaxTime) }
ConvDataPoints ==
  { Vec2(Finite(3, 5), Finite(1, 2)), Vec2(Rat(0), Rat(0)), Vec2(Finite(5, 2), Finite(-1, 4)) }
ConvUiPoints ==
  { Vec2(Rat(110), Rat(60)), Vec2(Rat(0), Rat(0)), Vec2(Rat(250), Finite(21, 2)) }

\* a data point and a screen point to convert, before the conversions
InitConvert ==
  /\ InitEngine({[e \in EnvNames |-> DefaultEnv]})
  /\ xl = NoCall
  /\ channels = DefaultNumOutputs
  /\ call \in [bounds : ConvBounds, range : ConvRanges, max : ConvMaxes,
                data : ConvDataPoints, ui : ConvUiPoints, done : {FALSE},
                data_ui : {None}, data_ui_data : {None},
                ui_data : {None}, ui_data_ui : {None}]

\* the data point is taken to the screen and back, the screen point to data
\* and back
ConvertCall ==
  /\ ~call.done
  /\ LET to_ui   == _data_to_ui_pos(call.bounds, call.data, call.range, call.max)
         to_data == _ui_to_data_pos(call.bounds, call.ui, call.range, call.max)
     IN call' = [call EXCEPT
                   !.done = TRUE,
                   !.data_ui = Some(to_ui),
                   !.data_ui_data =
                     Some(_ui_to_data_pos(call.bounds, to_ui, call.range, call.max)),
                   !.ui_data = Some(to_data),
                   !.ui_data_ui =
                     Some(_data_to_ui_pos(call.bounds, to_data, call.range, call.max))]
  /\ UNCHANGED <<audioVars, envs, queue, guards, writer, edits, graphVars, envelopeVars,
                 xl, channels, zoomVars, padVars>>

NextConvert == ConvertCall

SpecConvert == InitConvert /\ [][NextConvert]_vars

----------------------------------------------------------------------------
(* BoundingBoxExt for vizia::BoundingBox (src/src/util/vizia_extensions.rs), *)
(* on exact rationals.                                                      *)

\* f32::max and f32::min of two numbers
RatMax(p, q) == IF RatLeq(p, q) THEN q ELSE p
RatMin(p, q) == IF RatLeq(p, q) THEN p ELSE q

\* glam Vec2::clamp: component-wise max with min, then min with max
Vec2Clamp(v, lo, hi) ==
  Vec2(RatMin(RatMax(v.x, lo.x), hi.x), RatMin(RatMax(v.y, lo.y), hi.y))

top_left(b) == Vec2(b.x, b.y)
bottom_right(b) == Vec2(RatAdd(b.x, b.w), RatAdd(b.y, b.h))
center(b) ==
  Vec2(RatAdd(b.x, RatDiv(b.w, Rat(2))), RatAdd(b.y, RatDiv(b.h, Rat(2))))

shrink(b, amount) ==
  [x |-> RatAdd(b.x, amount), y |-> RatAdd(b.y, amount),
   w |-> RatSub(b.w, RatMul(amount, Rat(2))), h |-> RatSub(b.h, RatMul(amount, Rat(2)))]

expand(b, amount) ==
  [x |-> RatSub(b.x, amount), y |-> RatSub(b.y, amount),
   w |-> RatAdd(b.w, RatMul(amount, Rat(2))), h |-> RatAdd(b.h, RatMul(amount, Rat(2)))]

map_ui_point(b, point) ==
  LET clamped == Vec2Clamp(point, top_left(b), bottom_right(b))
      local   == Vec2(RatSub(clamped.x, b.x), RatSub(clamped.y, b.y))
  IN Vec2(RatDiv(local.x, b.w), RatDiv(local.y, b.h))

map_data_point(b, point) ==
  Vec2(RatAdd(RatMul(point.x, b.w), b.x), RatAdd(RatMul(point.y, b.h), b.y))

\* the rect of the tests, a second box, and two boxes that have not been
\* laid out: a box of no width and the default box
Boxes ==
  { BoundingBox(100, 100, 100, 100), BoundingBox(10, 20, 200, 80),
    BoundingBox(50, 50, 0, 40), BoundingBox(0, 0, 0, 0) }

\* cursor positions: the centre of the test rect, positions inside the
\* other boxes, and positions outside every box
BoxCursors ==
  { Vec2(Rat(150), Rat(150)), Vec2(Rat(110), Rat(60)), Vec2(Rat(50), Rat(70)),
    Vec2(Rat(0), Rat(0)), Vec2(Rat(-5), Rat(300)) }

\* the amount of the tests, a fraction and an amount over half of a box
BoxAmounts == { Rat(25), Finite(1, 2), Rat(60) }

InitBox ==
  /\ InitEngine({[e \in EnvNames |-> DefaultEnv]})
  /\ xl = NoCall
  /\ channels = DefaultNumOutputs
  /\ call \in [box : Boxes, cursor : BoxCursors, amount : BoxAmounts, done : {FALSE},
                mapped : {None}, back : {None}, resized : {None}]

\* the cursor is mapped to data and back, and the box shrunk and expanded
BoxCall ==
  /\ ~call.done
  /\ LET mapped == map_ui_point(call.box, call.cursor)
     IN call' = [call EXCEPT
                   !.done = TRUE,
                   !.mapped = Some(mapped),
                   !.back = Some(map_data_point(call.box, mapped)),
                   !.resized = Some(expand(shrink(call.box, call.amount), call.amount))]
  /\ UNCHANGED <<audioVars, envs, queue, guards, writer, edits, graphVars, envelopeVars,
                 xl, channels, zoomVars, padVars>>

NextBox == BoxCall

SpecBox == InitBox /\ [][NextBox]_vars

----------------------------------------------------------------------------
(* The derived Serialize and Deserialize of CurvePoints and CurvePoint      *)
(* (src/src/util/curve_point.rs), on the serde data model: a newtype struct *)
(* is its inner value, a Vec is a sequence, a struct is the sequence of its *)
(* fields, each a name and a value, in the order of the declaration.  The   *)
(* text a data format makes of it is the host's.                            *)

CurvePoint(x, y, curve) == [x |-> x, y |-> y, curve |-> curve]

\* #[derive(Serialize)] on CurvePoint
SerializePoint(p) == << <<"x", p.x>>, <<"y", p.y>>, <<"curve", p.curve>> >>

\* #[derive(Serialize)] on CurvePoints
SerializePoints(points) == [i \in 1 .. Len(points) |-> SerializePoint(points[i])]

\* the value of the field `name`; a missing or a duplicate field is an error
Field(fields, name) ==
  LET hits == { i \in 1 .. Len(fields) : fields[i][1] = name }
  IN IF Cardinality(hits) = 1
       THEN Some(fields[CHOOSE i \in hits : TRUE][2])
       ELSE None

\* a reader of points that knows the pair (x, y) only: From<(f32, f32)>
DeserializePointAsPair(fields) ==
  LET x == Field(fields, "x")
      y == Field(fields, "y")
  IN IF IsSome(x) /\ IsSome(y)
       THEN Some(CurvePoint(Unwrap(x), Unwrap(y), 0))
       ELSE None

\* #[derive(Deserialize)] on CurvePoint: the fields by their names
DeserializePoint(fields) ==
  LET x     == Field(fields, "x")
      y     == Field(fields, "y")
      curve == Field(fields, "curve")
  IN IF IsSome(x) /\ IsSome(y) /\ IsSome(curve)
       THEN Some(CurvePoint(Unwrap(x), Unwrap(y), Unwrap(curve)))
       ELSE None

\* #[derive(Deserialize)] on CurvePoints: None when an element is in error
DeserializePoints(data) ==
  IF \A i \in 1 .. Len(data) : IsSome(DeserializePoint(data[i]))
    THEN Some([i \in 1 .. Len(data) |-> Unwrap(DeserializePoint(data[i]))])
    ELSE None

SerdePoints ==
  { CurvePoint(x, y, c) : x \in {0, 2}, y \in {0, 10}, c \in {-5, 0} }

RECURSIVE SeqsUpTo(_, _)
SeqsUpTo(S, n) ==
  IF n = 0 THEN { <<>> }
  ELSE LET shorter == SeqsUpTo(S, n - 1)
       IN shorter \cup { Append(q, e) : q \in { r \in shorter : Len(r) = n - 1 }, e \in S }

\* a CurvePoints value before it is serialized
InitSerde ==
  /\ InitEngine({[e \in EnvNames |-> DefaultEnv]})
  /\ xl = NoCall
  /\ channels = DefaultNumOutputs
  /\ \E points \in SeqsUpTo(SerdePoints, MaxPoints) :
       call = [points |-> points, done |-> FALSE, data |-> <<>>, back |-> None]

\* the value is serialized and the result deserialized
SerdeCall ==
  /\ ~call.done
  /\ LET data == SerializePoints(call.points)
     IN call' = [call EXCEPT !.done = TRUE, !.data = data,
                             !.back = DeserializePoints(data)]
  /\ UNCHANGED <<audioVars, envs, queue, guards, writer, edits, graphVars, envelopeVars,
                 xl, channels, zoomVars, padVars>>

NextSerde == SerdeCall

SpecSerde == InitSerde /\ [][NextSerde]_vars

\* The voice engine on a restored state whose envelopes are malformed
InitRestored == InitWith({[e \in EnvNames |-> m] : m \in MalformedEnvs})

NextRestored ==
  \/ HostSendMidi(MidiEvents)
  \/ Audio

SpecRestored == InitRestored /\ [][NextRestored]_vars

TypeOK ==
  /\ time \in 0 .. (MaxClock + BlockTicks)
  /\ enabled \in BOOLEAN
  /\ Len(queue) <= MaxQueue
  /\ \A e \in EnvNames : guards[e] \in 0 .. 2

----------------------------------------------------------------------------
(* Vocabulary of the properties *)

\* the locations of the block at which the MIDI event is being applied
EventPcs == {"midi", "noteoff", "noteoff_body", "noteoff_exit"}

\* the event the block is applying: the head of the queue until it is taken
CurrentEvent ==
  IF pc = "midi" THEN (IF queue # <<>> THEN Some(Head(queue)) ELSE None) ELSE midi

HandlesNoteOn == IsSome(midi) /\ Unwrap(midi).type = "NoteOn"
HandlesNoteOff == IsSome(midi) /\ Unwrap(midi).type = "NoteOff"

\* the NoteOff arm is about to run its body on a note of the released pitch
MatchingNoteOffBody ==
  /\ pc = "noteoff_body"
  /\ Unwrap(note).note = Unwrap(midi).note

MasterLen == Len(envs["env"])

\* the relative time of a note n
RelOf(n) == time - n.on

\* segment i (0-based) of the points contains the relative time rel
SegmentContains(points, i, rel) ==
  /\ i >= 0 /\ i + 1 < Len(points)
  /\ points[i + 1].x <= rel
  /\ rel < points[i + 2].x

\* the fraction v lies between the integers lo and hi
FracWithin(v, lo, hi) == v.fin /\ lo * v.d <= v.n /\ v.n <= hi * v.d

\* the two outputs differ by less than 0.01 of the full scale (a tenth of a tenth)
Smooth(before, after) ==
  (IsSome(before) /\ IsSome(after)) =>
    LET a == Unwrap(before)
        b == Unwrap(after)
    IN a.fin /\ b.fin /\ 10 * Abs(a.n * b.d - b.n * a.d) < a.d * b.d

\* the stage the tick of this block leaves a note n at (-1: the note is cleared)
StageAfterTick(n) ==
  LET r == TickNote(n, envs["env"], time)
  IN IF IsSome(r) THEN Unwrap(r).stage ELSE -1

----------------------------------------------------------------------------
(* C1: right after a NoteOn is applied, whatever the note state was before, *)
(* the note is Sounding with exactly the event's pitch and velocity, stage  *)
(* 0 and an activation time equal to the current transport time.            *)
C1_NoteOnOverwrites ==
  (pc = "tick" /\ HandlesNoteOn) =>
    note = Some([note |-> Unwrap(midi).note, velocity |-> Unwrap(midi).velocity,
                 on |-> time, stage |-> 0])

\* a NoteOn applied after the clock has run, that is, over an earlier note
C1_Witness ==
  /\ pc = "tick" /\ HandlesNoteOn
  /\ time >= 2 * BlockTicks
  /\ Unwrap(note).on = time

(* C2: a NoteOff whose pitch is not the sounding note's pitch, or that      *)
(* arrives while Silent, changes nothing: no step of its handling changes   *)
(* the note (pitch, velocity, stage, activation time), the envelope points  *)
(* or the clock.                                                            *)
C2_StaleNoteOffNoOp ==
  [][(/\ pc \in EventPcs
      /\ IsSome(CurrentEvent)
      /\ Unwrap(CurrentEvent).type = "NoteOff"
      /\ (note = None \/ Unwrap(note).note # Unwrap(CurrentEvent).note))
     => (note' = note /\ envs' = envs /\ time' = time)]_vars

\* a NoteOff of another pitch has been handled while a note was sounding
C2_Witness ==
  /\ pc = "tick" /\ HandlesNoteOff
  /\ IsSome(note)
  /\ Unwrap(note).note # Unwrap(midi).note
  /\ Unwrap(note).velocity # Unwrap(midi).velocity
  /\ Unwrap(note).stage > 0

(* C3: a NoteOff of the sounding pitch stores its velocity, keeps the       *)
(* pitch, and moves the stage to len-2 only from below: a stage at len-2 or *)
(* beyond is left where it is.                                              *)
C3_NoteOffNeverMovesBack ==
  [][MatchingNoteOffBody =>
       note' = Some([Unwrap(note) EXCEPT
                       !.velocity = Unwrap(midi).velocity,
                       !.stage = IF @ < MasterLen - 2 THEN MasterLen - 2 ELSE @])]_vars

(* C4: when a NoteOff of the sounding pitch jumps the stage to len-2, the   *)
(* activation time is shifted in the same step so that the relative time    *)
(* lies in the release segment, and the master envelope value after the     *)
(* jump differs from the value before it by less than 0.01.                 *)
C4_ReleaseJumpIsSmooth ==
  [][(MatchingNoteOffBody /\ Unwrap(note).stage < MasterLen - 2) =>
       /\ envs["env"][MasterLen - 1].x <= time' - Unwrap(note').on
       /\ time' - Unwrap(note').on <= envs["env"][MasterLen].x
       /\ Smooth(SetEnvOutput(Unwrap(note), envs["env"], time),
                 SetEnvOutput(Unwrap(note'), envs["env"], time'))]_vars

(* C5: natural completion, in the form a finite run decides: with no        *)
(* envelope edits, once the relative time has passed the last master point  *)
(* and the stage has no next point, the tick leaves the note Silent.        *)
C5_CompletedNoteIsCleared ==
  (pc = "set_a_env" /\ IsSome(note) /\ MasterLen >= 1) =>
    ~(/\ RelOf(Unwrap(note)) >= envs["env"][MasterLen].x
      /\ Get(envs["env"], Unwrap(note).stage + 1) = None)

(* C6: in a block in which no note is Sounding the transport clock is not   *)
(* advanced and the block's output is all zero (nothing is rendered).       *)
C6_SilentBlockIsMuted ==
  [][(pc = "render" /\ note = None) => (time' = time /\ out' = "zero")]_vars

(* C7: after the tick of a block with a Sounding note, the next point does  *)
(* not exist or the relative time is before it: the stage never lags.       *)
C7_StageNeverLags ==
  (pc = "set_a_env" /\ IsSome(note)) =>
    LET nxt == Get(envs["env"], Unwrap(note).stage + 1)
    IN nxt = None \/ RelOf(Unwrap(note)) < Unwrap(nxt).x

(* C8: a NoteOff of the sounding pitch does not change the segment index    *)
(* that the operator-A, operator-B and noise envelopes are computed with in *)
(* that block: it is what it would have been without the NoteOff.           *)
C8_NoteOffLeavesOtherSegments ==
  [][MatchingNoteOffBody =>
       StageAfterTick(Unwrap(note')) = StageAfterTick(Unwrap(note))]_vars

(* C9: each envelope's output is computed on the segment of its own points  *)
(* that contains the relative time: whenever the stage is the right segment *)
(* of the master envelope, an envelope that emits a value does so on a      *)
(* segment of its own that contains the relative time.                      *)
C9_OwnSegment ==
  \A e \in EnvNames :
    (/\ pc = HoldPc(e)
     /\ SegmentContains(envs["env"], Unwrap(note).stage, RelOf(Unwrap(note)))
     /\ IsSome(SetEnvOutput(Unwrap(note), envs[e], time)))
    => SegmentContains(envs[e], Unwrap(note).stage, RelOf(Unwrap(note)))

(* C10: every envelope value pushed into the signal graph lies between the  *)
(* values of the two points of the current segment.                         *)
C10_OutputWithinSegment ==
  \A e \in EnvNames :
    (/\ pc = NextSetPc(e)
     /\ IsSome(note)
     /\ IsSome(SetEnvOutput(Unwrap(note), envs[e], time)))
    => LET l == envs[e][Unwrap(note).stage + 1].y
           r == envs[e][Unwrap(note).stage + 2].y
       IN FracWithin(envTags[e], IF l <= r THEN l ELSE r, IF l <= r THEN r ELSE l)

(* C11: on a segment whose two points have the same time the envelope       *)
(* output is the right point's value, and no infinite or undefined value is *)
(* ever pushed into the signal graph.                                       *)
C11_EqualTimesStep ==
  [][\A e \in EnvNames :
       /\ envTags'[e].fin
       /\ (/\ pc = HoldPc(e)
           /\ IsSome(Get(envs[e], Unwrap(note).stage))
           /\ IsSome(Get(envs[e], Unwrap(note).stage + 1))
           /\ envs[e][Unwrap(note).stage + 1].x = envs[e][Unwrap(note).stage + 2].x)
          => envTags'[e] = Finite(envs[e][Unwrap(note).stage + 2].y, 1)]_vars

(* C12: on a master envelope of fewer than two points or of non-increasing  *)
(* times the audio thread never panics and never stores a stage that an     *)
(* underflowing len-2 produced.                                             *)
C12_NoPanicOnMalformed ==
  /\ pc # "panicked"
  /\ IsSome(note) => Unwrap(note).stage < UsizeModulus - 2

\* the audio thread is at a read() of envelope e while the editor holds the
\* write guard of e: the call waits until the guard is dropped
AudioWaitsOn(e) ==
  /\ IsSome(writer) /\ Unwrap(writer).param = e
  /\ \/ e = "env" /\ pc \in {"noteoff", "tick"}
     \/ pc = SetPc(e) /\ IsSome(note)

(* C13: the audio thread never waits on an envelope lock: it is never at a  *)
(* read of an envelope whose lock a writer holds.                           *)
C13_AudioNeverWaits ==
  \A e \in EnvNames : ~AudioWaitsOn(e)

\* the block has observed the master points (in the NoteOff arm or in the
\* tick) and has a later observation of them to make (the tick, or the
\* output of the master envelope)
BetweenObservations ==
  \/ pc \in {"noteoff_body", "noteoff_exit", "tick"} /\ HandlesNoteOff /\ IsSome(note)
  \/ /\ pc \in {"tick_body", "set_a_env", "hold_a_env", "set_b_env", "hold_b_env",
                 "set_noise_env", "hold_noise_env", "set_env", "hold_env"}
     /\ IsSome(note)

(* C14: between the first and the last observation of the master envelope   *)
(* that a block makes, the master points do not change.                     *)
C14_OneVersionPerBlock ==
  [][BetweenObservations => envs'["env"] = envs["env"]]_vars

(* C15: a remove request never takes the first or the last point: every    *)
(* step of the editor that shortens the master point sequence leaves at     *)
(* least two points and keeps its first and its last point.                 *)
C15_RemoveKeepsEnds ==
  [][Len(envs'[MsegParam]) < Len(envs[MsegParam]) =>
       /\ Len(envs'[MsegParam]) >= 2
       /\ envs'[MsegParam][1] = envs[MsegParam][1]
       /\ envs'[MsegParam][Len(envs'[MsegParam])] = envs[MsegParam][Len(envs[MsegParam])]]_vars

(* C16: the first point of the envelope keeps time 0 and value 0 under      *)
(* every sequence of editor operations.                                     *)
C16_FirstPointAtZero ==
  Len(envs[MsegParam]) >= 1 => envs[MsegParam][1] = ZeroPoint

\* the times of the points are strictly increasing
StrictlyIncreasing(points) ==
  \A i \in 1 .. (Len(points) - 1) : points[i].x < points[i + 1].x

(* C17: under drags, insertions and removals through the envelope editor    *)
(* the times of the points stay strictly increasing.                        *)
C17_TimesStayIncreasing ==
  \A e \in EnvelopeParams : StrictlyIncreasing(envs[e])

(* C18: a block takes at most one event, the head of the MIDI queue, at its *)
(* start; the queue changes otherwise only by the host appending an event;  *)
(* and the event taken is applied to the note before the tick of the block. *)
C18_OneEventPerBlock ==
  [][/\ (queue' # queue) =>
          \/ /\ pc = "midi" /\ pc' # "midi"
             /\ queue # <<>>
             /\ queue' = Tail(queue)
             /\ midi' = Some(Head(queue))
          \/ /\ Len(queue') = Len(queue) + 1
             /\ SubSeq(queue', 1, Len(queue)) = queue
             /\ midi' = midi /\ note' = note
     /\ (pc # "tick" /\ pc' = "tick" /\ IsSome(midi')) =>
          LET ev == Unwrap(midi') IN
            /\ ev.type = "NoteOn" => note' = Some(NoteOnNote(ev, time'))
            /\ (ev.type = "NoteOff" /\ IsSome(note') /\ Unwrap(note').note = ev.note)
                 => Unwrap(note').velocity = ev.velocity]_vars

\* the first of two queued events has been applied and the tick is next,
\* the second event still waiting for its block
C18_Witness ==
  /\ pc = "tick" /\ HandlesNoteOn
  /\ Unwrap(note).note = Unwrap(midi).note /\ Unwrap(note).on = time
  /\ Len(queue) = 1
  /\ queue[1] # Unwrap(midi)

\* a call of xlerp has returned from both definitions, its arguments in range
XlerpReturned ==
  /\ xl # NoCall /\ xl.done
  /\ XlerpAsserts(xl.t, xl.curve)

(* C19: for every a, b and every curve in [-1,1], xlerp(a,b,0,curve) is a   *)
(* and xlerp(a,b,1,curve) is b, in both definitions.                        *)
C19_XlerpEndpoints ==
  XlerpReturned =>
    /\ xl.t = Finite(0, 1) =>
         xl.util = Some(Finite(xl.a, 1)) /\ xl.math = Some(Finite(xl.a, 1))
    /\ xl.t = Finite(1, 1) =>
         xl.util = Some(Finite(xl.b, 1)) /\ xl.math = Some(Finite(xl.b, 1))

(* C20: for curve = -1 both definitions of xlerp are the step function: a   *)
(* for every t in [0,1) and b at t = 1.                                     *)
C20_XlerpStep ==
  (XlerpReturned /\ xl.curve = Finite(-1, 1)) =>
    LET step == IF xl.t = Finite(1, 1) THEN Finite(xl.b, 1) ELSE Finite(xl.a, 1)
    IN xl.util = Some(step) /\ xl.math = Some(step)

\* p to the k-th power, k a natural number; p^0 is 1
RECURSIVE RatPow(_, _)
RatPow(p, k) == IF k = 0 THEN Finite(1, 1) ELSE RatMul(p, RatPow(p, k - 1))

\* p is t to the power exp = k/m: p is not negative and p^m = t^k
IsPower(p, t, exp) ==
  /\ p.n >= 0
  /\ RatPow(p, exp.d) = RatPow(t, exp.n)

\* the exponent the curve stands for
CurveExponent(curve) ==
  IF curve.n > 0
    THEN Finite(curve.d - curve.n, curve.d)
    ELSE Finite(curve.d, curve.d - Abs(curve.n))

\* r = a + (b - a) * p
IsInterpolation(r, a, b, p) ==
  r = Finite(a * p.d + (b - a) * p.n, p.d)

\* the powers of the arguments drawn: multiples of 1/256 in [0, 1]
UnitGrid == { Finite(k, 256) : k \in 0 .. 256 }

\* a call of xlerp has returned with t in [0,1] and curve in (-1,1]
XlerpCurved ==
  /\ XlerpReturned
  /\ xl.curve # Finite(-1, 1)

(* C21: for curve in (-1,1] xlerp(a,b,t,curve) is a + (b-a)*t^exp with exp  *)
(* = 1-curve for curve > 0 and 1/(1-|curve|) for curve <= 0; for curve = 0  *)
(* it is a + (b-a)*t; and xlerp(0,2,t,c) is twice xlerp(0,1,t,c).           *)
C21_XlerpCurve ==
  XlerpCurved =>
    /\ \A f \in {xl.util, xl.math} :
         /\ IsSome(f)
         /\ \E p \in UnitGrid :
              /\ IsPower(p, xl.t, CurveExponent(xl.curve))
              /\ IsInterpolation(Unwrap(f), xl.a, xl.b, p)
         /\ xl.curve = Finite(0, 1) => IsInterpolation(Unwrap(f), xl.a, xl.b, xl.t)
    /\ (xl.a = 0 /\ xl.b = 2) =>
         /\ xl.util = Some(RatMul(Finite(2, 1), Unwrap(util_xlerp(0, 1, xl.t, xl.curve))))
         /\ xl.math = Some(RatMul(Finite(2, 1), Unwrap(math_xlerp(0, 1, xl.t, xl.curve))))

\* xlerp(0, 2, 9/16, -1/2) has returned 2 * (9/16)^2 from both definitions
C21_Witness ==
  /\ XlerpCurved
  /\ xl.a = 0 /\ xl.b = 2 /\ xl.t = Finite(9, 16) /\ xl.curve = Finite(-1, 2)
  /\ xl.util = Some(Finite(81, 128)) /\ xl.math = Some(Finite(81, 128))

\* the arguments of the call satisfy the documented ranges
ArgumentsInRange ==
  /\ 0 <= xl.t.n /\ xl.t.n <= xl.t.d
  /\ -xl.curve.d <= xl.curve.n /\ xl.curve.n <= xl.curve.d

(* C22: a call of xlerp with t outside [0,1] or curve outside [-1,1]        *)
(* panics and returns no value; a call with both in range returns a value.  *)
C22_XlerpFailsFast ==
  (xl # NoCall /\ xl.done) =>
    /\ IsSome(xl.util) <=> ArgumentsInRange
    /\ IsSome(xl.math) <=> ArgumentsInRange

\* a call with t = 5/4 and one with curve = -3/2 have panicked
C22_Witness ==
  /\ xl # NoCall /\ xl.done
  /\ xl.util = None /\ xl.math = None
  /\ \/ xl.t = Finite(5, 4) /\ xl.curve = Finite(1, 2)
     \/ xl.t = Finite(1, 4) /\ xl.curve = Finite(-3, 2)

(* C23: the audio thread never modifies an envelope: every step of process, *)
(* the handling of a matching NoteOff included, leaves the points of a_env, *)
(* b_env, noise_env and env as they were and takes no write guard.          *)
C23_AudioReadsOnly ==
  [][pc' # pc => (envs' = envs /\ writer' = writer)]_vars

\* a NoteOff of the sounding pitch has been applied, the stage moved to the
\* release segment and the points as they were at the start
C23_Witness ==
  /\ pc = "tick" /\ HandlesNoteOff
  /\ IsSome(note) /\ Unwrap(note).note = Unwrap(midi).note
  /\ Unwrap(note).stage = MasterLen - 2
  /\ time >= 2 * BlockTicks
  /\ envs["env"] = TightEnv

\* both points of the current segment of envelope e exist
SegmentPresent(e) ==
  /\ IsSome(note)
  /\ IsSome(Get(envs[e], Unwrap(note).stage))
  /\ IsSome(Get(envs[e], Unwrap(note).stage + 1))

(* C24: when a point of the current segment is absent the envelope emits    *)
(* nothing: the tag of an envelope changes only in the set_env of that      *)
(* envelope with both points of the segment present, and keeps its value in *)
(* every other step.                                                        *)
C24_AbsentPointHolds ==
  [][\A e \in EnvNames :
       envTags'[e] # envTags[e] => (pc = HoldPc(e) /\ SegmentPresent(e))]_vars

\* the block has passed the set_env of the master envelope with the stage on
\* the last point, and the tag holds the value an earlier block set
C24_Witness ==
  /\ pc = "render"
  /\ IsSome(note)
  /\ Unwrap(note).stage = MasterLen - 1
  /\ ~SegmentPresent("env")
  /\ envTags["env"] # Finite(0, 1)

(* C25: the block reports an error exactly when it exposes a channel of     *)
(* index 2 or higher: with three channels or more the status is             *)
(* Error("unexpected number of channels"); with one or two it is Normal,    *)
(* channel 0 copied from the left buffer and channel 1 from the right one.  *)
C25_ErrorOnThirdChannel ==
  IsSome(status) =>
    /\ Unwrap(status) = "Error" <=> channels >= 3
    /\ channels \in {1, 2} =>
         /\ Unwrap(status) = "Normal"
         /\ Len(written) = channels
         /\ written[1] = "left"
         /\ channels = 2 => written[2] = "right"

\* a rendered block has been copied to a buffer of one channel
C25_Witness ==
  /\ status = Some("Normal")
  /\ channels = 1
  /\ out = "rendered"
  /\ written = <<"left">>

\* the step takes a NoteOn from the queue and applies it
AppliesNoteOn ==
  /\ pc = "midi" /\ pc' # "midi"
  /\ IsSome(midi') /\ Unwrap(midi').type = "NoteOn"

(* C26: the Freq tag follows the last NoteOn: the step that applies a       *)
(* NoteOn sets it to the frequency of the event's pitch, no other step (a   *)
(* NoteOff included) changes it, and while a note is Sounding it is the     *)
(* frequency of the pitch of that note.                                     *)
C26_FreqFollowsNoteOn ==
  [][/\ IF AppliesNoteOn
          THEN freq' = MidiNoteToFreq(Unwrap(midi').note)
          ELSE freq' = freq
     /\ IsSome(note') => freq' = MidiNoteToFreq(Unwrap(note').note)]_vars

\* a NoteOff of the other key has been applied over a sounding note that a
\* second NoteOn had retuned
C26_Witness ==
  /\ pc = "tick" /\ HandlesNoteOff
  /\ IsSome(note)
  /\ Unwrap(note).note = 69 /\ Unwrap(midi).note = 60
  /\ freq = MidiNoteToFreq(69)
  /\ Unwrap(note).on > 0

(* C27: the conversions between screen and data coordinates are inverse to  *)
(* each other: on a box of positive size, a zoom range with start < end and *)
(* a positive max, a data point taken to the screen and back is the data    *)
(* point, and a screen point taken to data and back is the screen point.    *)
C27_ConversionsInverse ==
  (call # NoCall /\ call.done) =>
    /\ call.data_ui_data = Some(call.data)
    /\ call.ui_data_ui = Some(call.ui)

\* the data point of the tests, (0.6, 0.5) under the range 0.2..=0.4 and max
\* 2, has been taken to the screen point (110, 60) and back
C27_Witness ==
  /\ call # NoCall /\ call.done
  /\ call.bounds = BoundingBox(10, 20, 200, 80)
  /\ call.range = RangeInclusive(Finite(1, 5), Finite(2, 5))
  /\ call.max = Rat(2)
  /\ call.data = Vec2(Finite(3, 5), Finite(1, 2))
  /\ call.data_ui = Some(Vec2(Rat(110), Rat(60)))
  /\ call.data_ui_data = Some(call.data)

(* C28: the zoom range of the envelope view stays a sub-range of [0,1] with *)
(* start below end: after any sequence of drags of the start handle and of  *)
(* the end handle, 0 <= start, end <= 1 and end - start >= SMALLEST_RANGE.  *)
C28_ZoomRangeValid ==
  /\ 0 <= zoom_view.start
  /\ zoom_view.end <= FullRange
  /\ zoom_view.end - zoom_view.start >= SmallestRange

\* the end handle has been dragged left of the start, which an earlier drag
\* had moved, and the range is the smallest one
C28_Witness ==
  /\ zoomer_status = "SetEnd"
  /\ zoom_view.start > 0
  /\ zoom_view.end = zoom_view.start + SmallestRange
  /\ event_queue = <<>>

InUnitSquare(v) ==
  /\ v.x.fin /\ 0 <= v.x.n /\ v.x.n <= v.x.d
  /\ v.y.fin /\ 0 <= v.y.n /\ v.y.n <= v.y.d

\* the point lies in the box, its edges included
InsideBox(b, v) ==
  /\ RatLeq(b.x, v.x) /\ RatLeq(v.x, RatAdd(b.x, b.w))
  /\ RatLeq(b.y, v.y) /\ RatLeq(v.y, RatAdd(b.y, b.h))

(* C30: for every box and every cursor, map_ui_point returns a point of     *)
(* [0,1] x [0,1], the centre of the box going to (0.5, 0.5); map_data_point *)
(* takes the result back to the cursor when the cursor is inside the box;   *)
(* and expand(a) undoes shrink(a).                                          *)
C30_BoxMapping ==
  (call # NoCall /\ call.done) =>
    /\ InUnitSquare(Unwrap(call.mapped))
    /\ call.cursor = center(call.box) =>
         call.mapped = Some(Vec2(Finite(1, 2), Finite(1, 2)))
    /\ InsideBox(call.box, call.cursor) => call.back = Some(call.cursor)
    /\ call.resized = Some(call.box)

(* C31: the transport time never decreases, and the activation time of a    *)
(* sounding note never exceeds it: after every step, with a note present,   *)
(* note.on <= time, so time - note.on in the tick and in set_env never      *)
(* underflows.                                                              *)
C31_ClockNeverBehindNote ==
  [][/\ time' >= time
     /\ IsSome(note') => Unwrap(note').on <= time']_vars

\* set_env subtracts the activation time of a note that a NoteOn started
\* after the clock had run, some blocks later
C31_Witness ==
  /\ pc = "hold_env"
  /\ IsSome(note)
  /\ Unwrap(note).on >= BlockTicks
  /\ time >= Unwrap(note).on + 2 * BlockTicks

(* C32: after the tick of every block, a note that is still Sounding has a  *)
(* stage that is an index of the master points (stage < len), whatever      *)
(* points the editor removed between the blocks.                            *)
C32_StageValidAfterTick ==
  [][(pc = "tick_body" /\ pc' = "set_a_env" /\ IsSome(note'))
       => Unwrap(note').stage < Len(envs'["env"])]_vars

\* the write guard the handler holds for the event ev
WriteGuardOf(ev) ==
  Some([param |-> ev.param, kind |-> ev.kind, index |-> ev.index, point |-> ev.point])

(* C33: an edit of an envelope is applied whole or not at all.  The handler *)
(* of an event takes the write guard only when no read guard is held on the *)
(* envelope and drops the event otherwise; points change only in the step   *)
(* that holds the write guard of their envelope, no reader inside; a        *)
(* SetEnvPoint replaces the point at its index in that envelope and nothing *)
(* else, and changes nothing when the index is not an index of the points.  *)
C33_EditWholeOrDropped ==
  [][/\ edits' # edits =>
          /\ envs' = envs
          /\ writer' = IF guards[call'.param] > 0 THEN None ELSE WriteGuardOf(call')
     /\ IsSome(writer') => guards'[Unwrap(writer').param] = 0
     /\ \A e \in EnvNames :
          envs'[e] # envs[e] =>
            /\ IsSome(writer) /\ Unwrap(writer).param = e
            /\ guards[e] = 0
     /\ (IsSome(writer) /\ writer' = None /\ Unwrap(writer).kind = "set") =>
          LET w == Unwrap(writer) IN
            envs' = IF w.index < Len(envs[w.param])
                      THEN [envs EXCEPT ![w.param][w.index + 1] = w.point]
                      ELSE envs]_vars

\* a SetEnvPoint for a point of the operator-A envelope was dropped: the
\* audio thread holds the read guard of set_env and the point is as it was
C33_Witness ==
  /\ call # NoCall
  /\ call.kind = "set" /\ call.param = "a_env"
  /\ call.index < Len(envs["a_env"])
  /\ edits = 1 /\ writer = None
  /\ pc = "hold_a_env" /\ guards["a_env"] = 1
  /\ envs["a_env"][call.index + 1] # call.point

\* the audio thread is inside a block
InBlock == pc \notin {"midi", "panicked"}

(* C34: the audio thread does not deadlock on the envelope locks and holds  *)
(* no guard past the end of a block: at the start of every block no read    *)
(* guard is held, and every block that was started comes to its end, the    *)
(* second read guard of the NoteOff arm and the editor's try_write included.*)
C34_BlockEndsUnguarded ==
  /\ [](pc = "midi" => \A e \in EnvNames : guards[e] = 0)
  /\ (InBlock ~> pc = "midi")

\* the NoteOff arm holds its two read guards of the master envelope, and a
\* SetEnvPoint the editor sent for it has been dropped
C34_Witness ==
  /\ pc = "noteoff_exit"
  /\ guards["env"] = 2
  /\ call # NoCall /\ call.param = "env"
  /\ edits = 1 /\ writer = None
  /\ envs["env"] = DefaultEnv

\* the point lies in the value range [0,1] and in the time range [0,max]
PointInRange(p) ==
  /\ 0 <= p.y /\ p.y <= 10
  /\ 0 <= p.x /\ p.x <= MaxTime

(* C35: after a drag edit the dragged point lies in the value range [0,1]   *)
(* and the time range [0,max], with value 0 when it is the last point of    *)
(* the sequence; so a drag edit of a sequence whose last point has value 0  *)
(* leaves a sequence whose last point has value 0.                          *)
C35_DraggedPointInRange ==
  [][(IsSome(writer) /\ writer' = None /\ Unwrap(writer).kind = "set") =>
       LET index  == Unwrap(writer).index
           before == envs[MsegParam]
           after  == envs'[MsegParam]
       IN /\ index < Len(after) =>
               /\ PointInRange(after[index + 1])
               /\ index = Len(after) - 1 => after[index + 1].y = 0
          /\ (Len(before) >= 1 /\ before[Len(before)].y = 0) =>
               after[Len(after)].y = 0]_vars

(* C36: in the envelope graph, whenever is_dragging_point is true the       *)
(* active point id is Some(i) with i an index of the points as they are,    *)
(* after any sequence of mouse events and point removals.                   *)
C36_DragHasValidPoint ==
  is_dragging_point =>
    /\ IsSome(active_point_id)
    /\ Unwrap(active_point_id) < Len(envs[MsegParam])


----------------------------------------------------------------------------
(* The XyPad view (src/src/widgets/xy_pad.rs): XyPad::event takes the event *)
(* at the head of the event queue of the UI thread, XyPad::draw runs once   *)
(* the queue of the frame is flushed and emits its UpdateState to the back  *)
(* of the queue.  The window system moves the cursor when the move arrives, *)
(* before the view handles it; draw reads the cursor of that moment.        *)
(* on_changing_point is taken to be set.                                    *)

InternalState == {"NoOp", "Hovering", "Dragging"}

PadEvent(kind, button, st) == [kind |-> kind, button |-> button, state |-> st]

\* InternalEvent::UpdateState { state }
UpdateState(st) == PadEvent("UpdateState", "None", st)

\* the window events the user can send to the pad
PadWindowEvents ==
  { PadEvent("MouseDown", "Left", "NoOp"), PadEvent("MouseDown", "Right", "NoOp"),
    PadEvent("MouseUp", "Left", "NoOp"), PadEvent("MouseUp", "Right", "NoOp"),
    PadEvent("MouseMove", "None", "NoOp") }

\* a window event arrives; a move puts the cursor within HOVER_RADIUS of the
\* data point or away from it
XyPadInput ==
  /\ inputs < MaxInputs
  /\ inputs' = inputs + 1
  /\ \E ev \in PadWindowEvents :
       /\ event_queue' = Append(event_queue, ev)
       /\ IF ev.kind = "MouseMove" THEN hovered' \in BOOLEAN ELSE hovered' = hovered
  /\ UNCHANGED <<audioVars, envs, queue, guards, writer, edits, envelopeVars, xl, channels,
                 call, zoomVars>>
  /\ UNCHANGED <<active_point_id, is_dragging_point, ui_panicked, state, captured, changing>>

\* a draw that asks for NoOp whenever the cursor is away from the point
XyPadDrawEmitsWhileDragging ==
  LET emitted == IF hovered
                   THEN IF state = "NoOp" THEN <<UpdateState("Hovering")>> ELSE <<>>
                   ELSE <<UpdateState("NoOp")>>
  IN /\ event_queue = <<>>
     /\ event_queue' = event_queue \o emitted
     /\ UNCHANGED <<audioVars, envs, queue, guards, writer, edits, envelopeVars, xl, channels,
                    call, zoomVars>>
     /\ UNCHANGED <<active_point_id, is_dragging_point, inputs, ui_panicked, padVars>>

\* XyPad::draw
XyPadDraw ==
  LET emitted == IF hovered
                   THEN IF state = "NoOp" THEN <<UpdateState("Hovering")>> ELSE <<>>
                   ELSE IF state # "Dragging" THEN <<UpdateState("NoOp")>> ELSE <<>>
  IN /\ event_queue = <<>>
     /\ event_queue' = event_queue \o emitted
     /\ UNCHANGED <<audioVars, envs, queue, guards, writer, edits, envelopeVars, xl, channels,
                    call, zoomVars>>
     /\ UNCHANGED <<active_point_id, is_dragging_point, inputs, ui_panicked, padVars>>

\* XyPad::event
XyPadEvent ==
  /\ event_queue # <<>>
  /\ event_queue' = Tail(event_queue)
  /\ LET ev == Head(event_queue) IN
       CASE ev.kind = "UpdateState" ->
              /\ state' = ev.state
              /\ UNCHANGED <<captured, changing>>
         [] ev.kind = "MouseMove" ->
              /\ changing' = IF state = "Dragging" THEN changing + 1 ELSE changing
              /\ UNCHANGED <<state, captured>>
         [] ev.kind = "MouseDown" /\ ev.button = "Left" ->
              /\ captured' = TRUE
              /\ state' = IF state = "Hovering" THEN "Dragging" ELSE state
              /\ UNCHANGED changing
         [] ev.kind = "MouseUp" /\ ev.button = "Left" ->
              /\ captured' = FALSE
              /\ state' = IF state = "Dragging" THEN "Hovering" ELSE "NoOp"
              /\ UNCHANGED changing
         [] OTHER -> UNCHANGED <<state, captured, changing>>
  /\ UNCHANGED <<audioVars, envs, queue, guards, writer, edits, envelopeVars, xl, channels,
                 call, zoomVars>>
  /\ UNCHANGED <<active_point_id, is_dragging_point, inputs, ui_panicked, hovered>>

NextXyPad == XyPadInput \/ XyPadDraw \/ XyPadEvent

SpecXyPad == InitEdit /\ [][NextXyPad]_vars

(* C37: the pad enters Dragging only when it handles a left mouse-down while *)
(* Hovering, leaves Dragging only when it handles a left mouse-up, so that   *)
(* no UpdateState emitted by draw ends a drag, and on_changing_point is      *)
(* called only when a mouse move is handled while Dragging.                  *)
C37_DragHeldUntilMouseUp ==
  [][LET handled == event_queue # <<>> /\ event_queue' = Tail(event_queue)
         ev == Head(event_queue)
     IN /\ (state # "Dragging" /\ state' = "Dragging") =>
             /\ handled /\ ev.kind = "MouseDown" /\ ev.button = "Left"
             /\ state = "Hovering"
        /\ (state = "Dragging" /\ state' # "Dragging") =>
             /\ handled /\ ev.kind = "MouseUp" /\ ev.button = "Left"
        /\ changing' # changing =>
             /\ handled /\ ev.kind = "MouseMove"
             /\ state = "Dragging"
        /\ (handled /\ ev.kind = "UpdateState" /\ state = "Dragging") => state' = "Dragging"]_vars

\* a drag under way with the cursor away from the point, a move reported
C37_Witness == state = "Dragging" /\ ~hovered /\ changing = 1 /\ event_queue = <<>>


\* the Envelope widget the pointer is pressed on before or after the step
GestureOn(e) ==
  \/ IsSome(pointer) /\ Unwrap(pointer).widget = e
  \/ IsSome(pointer') /\ Unwrap(pointer').widget = e

(* C38: a call of Envelope::ui changes the points of its envelope only in a  *)
(* frame of a gesture on its own widget: no press, drag or release on one     *)
(* Envelope widget changes the point sequence of another.                     *)
C38_WidgetsIsolated ==
  [][\A e \in EnvelopeParams : envs'[e] # envs[e] => GestureOn(e)]_vars


\* the frame of a press on an Envelope widget
PressFrame == pointer = None /\ IsSome(pointer')

TimesNonDecreasing(points) ==
  \A i \in 1 .. (Len(points) - 1) : points[i].x <= points[i + 1].x

(* C39: a press on an Envelope widget changes its points only by one        *)
(* insertion, made with the primary button while nobody holds the lock: the  *)
(* new point goes to the index of the first point right of it, which is not  *)
(* index 0 and not past the last point, some point lies left of it, the      *)
(* sequence grows by one, and times that were in non-decreasing order stay   *)
(* in non-decreasing order.                                                  *)
C39_InsertBetweenPoints ==
  [][PressFrame =>
       LET e == Unwrap(pointer').widget
           before == envs[e]
           after == envs'[e]
       IN /\ (guards[e] > 0 \/ IsSome(writer)) => after = before
          /\ after # before =>
               /\ Unwrap(pointer').button = "Primary"
               /\ Len(after) = Len(before) + 1
               /\ \E index \in 1 .. (Len(before) - 1) :
                    LET p == after[index + 1] IN
                      /\ after = InsertAt(before, index, p)
                      /\ before[index + 1].x > p.x
                      /\ \A j \in 1 .. index : before[j].x <= p.x
                      /\ \E j \in 1 .. Len(before) : before[j].x < p.x
               /\ TimesNonDecreasing(before) => TimesNonDecreasing(after)]_vars

\* a point added between the second and the third point of the master
\* envelope while a note sounds
C39_Witness ==
  /\ IsSome(note) /\ IsSome(pointer) /\ Unwrap(pointer).button = "Primary"
  /\ Len(envs[MsegParam]) = Len(DefaultEnv) + 1
  /\ envs[MsegParam][3] = [x |-> 3, y |-> 5]

====
